---- MODULE Spec2Model ----
(***************************************************************************)
(* Archive ingestion pipeline of spectra-explorer (src/src/lib/mockApi.ts):*)
(* parseZipArchive (structured export, "Strategy A") and parseRawBes3t     *)
(* (raw .dsc/.dta pairs, "Strategy B"), with the helpers they call.        *)
(*                                                                         *)
(* Text is a sequence of one-character strings, so that substring, suffix  *)
(* and ordering tests are computed and not assumed.  Numbers are integers. *)
(***************************************************************************)
EXTENDS Integers, Sequences, FiniteSets, TLC

(***************************************************************************)
(* Bounds of the model.                                                    *)
(***************************************************************************)
\* datasets (metadata.json folders or .dsc descriptors) per archive
MaxDatasets == 3
\* largest declared point count (XPTS, axis points) and table height
MaxPts == 2

(***************************************************************************)
(* Text helpers                                                            *)
(***************************************************************************)
\* Collation rank of the characters used in member names.  For lower-case
\* letters, digits and this punctuation localeCompare compares character by
\* character with these primary weights.
Alphabet == <<"_", ".", "/", "0", "1", "2", "a", "b", "c", "d", "e", "j",
              "m", "n", "o", "r", "s", "t", "v", "w", "x", "y">>

CharRank(c) == IF \E i \in 1..Len(Alphabet) : Alphabet[i] = c
               THEN CHOOSE i \in 1..Len(Alphabet) : Alphabet[i] = c
               ELSE Len(Alphabet) + 1

\* String.prototype.toLowerCase on one character
LowerChar(c) ==
  CASE c = "A" -> "a" [] c = "B" -> "b" [] c = "C" -> "c" [] c = "D" -> "d"
    [] c = "E" -> "e" [] c = "F" -> "f" [] c = "G" -> "g" [] c = "H" -> "h"
    [] c = "I" -> "i" [] c = "J" -> "j" [] c = "K" -> "k" [] c = "L" -> "l"
    [] c = "M" -> "m" [] c = "N" -> "n" [] c = "O" -> "o" [] c = "P" -> "p"
    [] c = "Q" -> "q" [] c = "R" -> "r" [] c = "S" -> "s" [] c = "T" -> "t"
    [] c = "U" -> "u" [] c = "V" -> "v" [] c = "W" -> "w" [] c = "X" -> "x"
    [] c = "Y" -> "y" [] c = "Z" -> "z" [] OTHER -> c

\* String.prototype.toUpperCase on one character
UpperChar(c) ==
  CASE c = "a" -> "A" [] c = "b" -> "B" [] c = "c" -> "C" [] c = "d" -> "D"
    [] c = "e" -> "E" [] c = "f" -> "F" [] c = "g" -> "G" [] c = "h" -> "H"
    [] c = "i" -> "I" [] c = "j" -> "J" [] c = "k" -> "K" [] c = "l" -> "L"
    [] c = "m" -> "M" [] c = "n" -> "N" [] c = "o" -> "O" [] c = "p" -> "P"
    [] c = "q" -> "Q" [] c = "r" -> "R" [] c = "s" -> "S" [] c = "t" -> "T"
    [] c = "u" -> "U" [] c = "v" -> "V" [] c = "w" -> "W" [] c = "x" -> "X"
    [] c = "y" -> "Y" [] c = "z" -> "Z" [] OTHER -> c

toLowerCase(s) == [i \in 1..Len(s) |-> LowerChar(s[i])]

toUpperCase(s) == [i \in 1..Len(s) |-> UpperChar(s[i])]

\* String.prototype.includes
includes(s, sub) ==
  \E i \in 1..(Len(s) - Len(sub) + 1) : SubSeq(s, i, i + Len(sub) - 1) = sub

\* String.prototype.endsWith
endsWith(s, suf) ==
  /\ Len(suf) <= Len(s)
  /\ SubSeq(s, Len(s) - Len(suf) + 1, Len(s)) = suf

\* String.prototype.startsWith
startsWith(s, pre) ==
  /\ Len(pre) <= Len(s)
  /\ SubSeq(s, 1, Len(pre)) = pre

\* a.localeCompare(b) < 0
RECURSIVE localeLess(_, _)
localeLess(a, b) ==
  IF b = <<>> THEN FALSE
  ELSE IF a = <<>> THEN TRUE
  ELSE IF CharRank(Head(a)) # CharRank(Head(b))
       THEN CharRank(Head(a)) < CharRank(Head(b))
       ELSE localeLess(Tail(a), Tail(b))

\* index (1-based) of the last '/' of a path, 0 when there is none
lastIndexOfSlash(s) ==
  IF \E i \in 1..Len(s) : s[i] = "/"
  THEN CHOOSE i \in 1..Len(s) : s[i] = "/" /\ \A j \in (i+1)..Len(s) : s[j] # "/"
  ELSE 0

\* toFolder(path): the part before the last '/', '' when there is none
toFolder(path) ==
  IF lastIndexOfSlash(path) = 0 THEN <<>>
  ELSE SubSeq(path, 1, lastIndexOfSlash(path) - 1)

\* path.split('/').pop(): the part after the last '/'
lastSegment(path) == SubSeq(path, lastIndexOfSlash(path) + 1, Len(path))

\* folder.split('/').filter(Boolean).pop(): the last non-empty segment
RECURSIVE lastNonEmptySegment(_)
lastNonEmptySegment(path) ==
  IF path = <<>> THEN <<>>
  ELSE IF lastSegment(path) # <<>> THEN lastSegment(path)
  ELSE lastNonEmptySegment(SubSeq(path, 1, Len(path) - 1))

\* Array.prototype.flat on a sequence of sequences
RECURSIVE flat(_)
flat(rows) == IF rows = <<>> THEN <<>> ELSE Head(rows) \o flat(Tail(rows))

\* Math.min(...x) of a non-empty sequence
seqMin(x) == CHOOSE m \in {x[i] : i \in 1..Len(x)} : \A j \in 1..Len(x) : m <= x[j]

\* Array.from({ length: n }, (_, i) => i)
indexRamp(n) == [i \in 1..n |-> i - 1]

\* an optional array (number[] | null)
Null == [some |-> FALSE, v |-> <<>>]

Some(v) == [some |-> TRUE, v |-> v]

(***************************************************************************)
(* String constants of the source                                          *)
(***************************************************************************)
METADATA_JSON == <<"m","e","t","a","d","a","t","a",".","j","s","o","n">>

METADATA_DSC_RAW_JSON ==
  <<"m","e","t","a","d","a","t","a","_","d","s","c","_","r","a","w",
    ".","j","s","o","n">>

DOT_DSC == <<".","d","s","c">>

DOT_DTA == <<".","d","t","a">>

DATA_CSV == <<"d","a","t","a",".","c","s","v">>

DATA_REAL_CSV == <<"d","a","t","a","_","r","e","a","l",".","c","s","v">>

AXES_X_CSV == <<"a","x","e","s","_","x",".","c","s","v">>

AXES_Y_CSV == <<"a","x","e","s","_","y",".","c","s","v">>

DATASET == <<"d","a","t","a","s","e","t">>

INTENSITY == <<"I","n","t","e","n","s","i","t","y"," ","(","a",".","u",".",")">>

(***************************************************************************)
(* CSV text and axis helpers (mockApi.ts 71-146)                           *)
(***************************************************************************)
\* A text is a sequence of lines; a CSV line is a sequence of cells; a cell is
\* numeric text, empty text (Number('') is 0) or other text (Number is NaN).
NumCell(n) == [t |-> "num", v |-> n]

EmptyCell == [t |-> "empty", v |-> 0]

NanCell == [t |-> "nan", v |-> 0]

\* Number.isFinite(Number(part.trim()))
cellIsFinite(c) == c.t # "nan"

\* Number(part.trim()) of a finite cell
cellNumber(c) == IF c.t = "num" THEN c.v ELSE 0

\* one line of parseCsv: split(','), Number, filter(isFinite)
parseCsvLine(line) ==
  LET kept == SelectSeq(line, cellIsFinite)
  IN  [i \in 1..Len(kept) |-> cellNumber(kept[i])]

rowNonEmpty(row) == Len(row) > 0

\* parseCsv(text): blank lines dropped, rows without a finite cell dropped
parseCsv(text) ==
  LET lines == SelectSeq(text, rowNonEmpty)
      rows  == [i \in 1..Len(lines) |-> parseCsvLine(lines[i])]
  IN  SelectSeq(rows, rowNonEmpty)

\* readTextIfExists(zip, path): the member's text, or null
readTextIfExists(zip, path) ==
  IF \E i \in 1..Len(zip) : zip[i].name = path
  THEN Some(zip[CHOOSE i \in 1..Len(zip) : zip[i].name = path].text)
  ELSE Null

\* !txt : null or the empty string
textIsFalsy(t) == ~t.some \/ t.v = <<>>

\* explicit values are used whatever the declared count
buildAxisVerbatim(values, points) ==
  IF values.some /\ Len(values.v) > 0 THEN values
  ELSE IF points > 0 THEN Some([i \in 1..points |-> i - 1]) ELSE Null

\* buildAxis(values, points); points = 0 stands for an undefined count
buildAxis(values, points) ==
  IF values.some /\ Len(values.v) > 0
  THEN IF points > 0 /\ Len(values.v) # points
       THEN Some(indexRamp(points))
       ELSE values
  ELSE IF points > 0 THEN Some(indexRamp(points)) ELSE Null

\* an axis description that is undefined
NoAxis == [defined |-> FALSE, axis_id |-> <<>>, name |-> <<>>, unit |-> <<>>,
           points |-> 0]

\* axisLabel(axis, fallback)
axisLabel(axis, fallback) ==
  IF ~axis.defined THEN fallback
  ELSE (IF axis.name # <<>> THEN axis.name ELSE fallback)
       \o (IF axis.unit # <<>> THEN <<" ", "(">> \o axis.unit \o <<")">> ELSE <<>>)

\* isTimeAxis(axisMeta)
isTimeAxis(axisMeta) ==
  LET name == toLowerCase(axisMeta.name)
      unit == toLowerCase(axisMeta.unit)
  IN  \/ unit = <<"s">>
      \/ unit = <<"m","s">>
      \/ unit = <<"u","s">>
      \/ unit = <<"µ","s">>
      \/ unit = <<"n","s">>
      \/ includes(name, <<"t","i","m","e">>)
      \/ includes(name, <<"t","a","u">>)

\* the smallest value is subtracted instead of the first
normalizeAxisByMin(axis, axisMeta) ==
  IF ~axis.some \/ Len(axis.v) < 1 THEN axis
  ELSE IF ~isTimeAxis(axisMeta) THEN axis
  ELSE Some([i \in 1..Len(axis.v) |-> axis.v[i] - seqMin(axis.v)])

\* normalizeAxisStart(axis, axisMeta)
normalizeAxisStart(axis, axisMeta) ==
  IF ~axis.some \/ Len(axis.v) < 1 THEN axis
  ELSE IF ~isTimeAxis(axisMeta) THEN axis
  ELSE IF axis.v[1] = 0 THEN axis
  ELSE Some([i \in 1..Len(axis.v) |-> axis.v[i] - axis.v[1]])

timeTypes == {"T1", "T2", "Rabi", "EDFS"}

\* the first value is subtracted instead of the smallest
normalizeXByFirst(x, type, xLabel) ==
  IF type \notin timeTypes /\ ~includes(toLowerCase(xLabel), <<"t","i","m","e">>)
  THEN x
  ELSE IF Len(x) = 0 THEN x
  ELSE [i \in 1..Len(x) |-> x[i] - x[1]]

\* normalizeXForTimeType(x, type, xLabel)
normalizeXForTimeType(x, type, xLabel) ==
  IF type \notin timeTypes /\ ~includes(toLowerCase(xLabel), <<"t","i","m","e">>)
  THEN x
  ELSE IF Len(x) = 0 THEN x
  ELSE IF seqMin(x) = 0 THEN x
  ELSE [i \in 1..Len(x) |-> x[i] - seqMin(x)]

\* the keyword 't1' is looked for before 'rabi'
inferT1First(datasetName, family, is2D) ==
  LET name == toLowerCase(datasetName)
  IN  IF includes(name, <<"e","d","f","s">>) THEN "EDFS"
      ELSE IF includes(name, <<"t","1">>) THEN "T1"
      ELSE IF includes(name, <<"r","a","b","i">>) THEN "Rabi"
      ELSE IF includes(name, <<"t","2">>) THEN "T2"
      ELSE IF includes(name, <<"h","y","s","c","o","r","e">>) THEN "HYSCORE"
      ELSE IF includes(name, <<"2","d">>) THEN "2D"
      ELSE IF includes(name, <<"c","w">>) THEN "CW"
      ELSE IF includes(family, <<"C","W">>) THEN (IF is2D THEN "2D" ELSE "CW")
      ELSE IF includes(family, <<"P","U","L","S","E","D">>)
           THEN (IF is2D THEN "2D" ELSE "T1")
      ELSE IF is2D THEN "2D" ELSE "Unknown"

\* inferSpectrumType(datasetName, metadata, is2D); family is
\* metadata.classification.experiment_family
inferSpectrumType(datasetName, family, is2D) ==
  LET name == toLowerCase(datasetName)
  IN  IF includes(name, <<"e","d","f","s">>) THEN "EDFS"
      ELSE IF includes(name, <<"r","a","b","i">>) THEN "Rabi"
      ELSE IF includes(name, <<"t","1">>) THEN "T1"
      ELSE IF includes(name, <<"t","2">>) THEN "T2"
      ELSE IF includes(name, <<"h","y","s","c","o","r","e">>) THEN "HYSCORE"
      ELSE IF includes(name, <<"2","d">>) THEN "2D"
      ELSE IF includes(name, <<"c","w">>) THEN "CW"
      ELSE IF includes(family, <<"C","W">>) THEN (IF is2D THEN "2D" ELSE "CW")
      ELSE IF includes(family, <<"P","U","L","S","E","D">>)
           THEN (IF is2D THEN "2D" ELSE "T1")
      ELSE IF is2D THEN "2D" ELSE "Unknown"

\* readAxisCsv(zip, folder, axisName, points); prefix ends with '/' or is ''
readAxisCsv(zip, prefix, axisFile, points) ==
  LET txt == readTextIfExists(zip, prefix \o axisFile)
  IN  IF textIsFalsy(txt) THEN buildAxis(Null, points)
      ELSE buildAxis(Some(flat(parseCsv(txt.v))), points)

\* build1DFromCsv(rows)
build1DFromCsv(rows) ==
  [xData    |-> [i \in 1..Len(rows) |->
                   IF Len(rows[i]) = 1 THEN i - 1 ELSE rows[i][1]],
   realData |-> [i \in 1..Len(rows) |->
                   IF Len(rows[i]) = 1 THEN rows[i][1] ELSE rows[i][2]],
   imagData |-> [i \in 1..Len(rows) |->
                   IF Len(rows[i]) >= 3 THEN rows[i][3] ELSE 0]]

(***************************************************************************)
(* Descriptor (.dsc) helpers (mockApi.ts 419-520)                          *)
(***************************************************************************)
isSpace(c) == c = " " \/ c = "\t"

\* String.prototype.trim
trim(s) ==
  IF \A i \in 1..Len(s) : isSpace(s[i]) THEN <<>>
  ELSE LET first == CHOOSE i \in 1..Len(s) :
                      ~isSpace(s[i]) /\ \A j \in 1..(i-1) : isSpace(s[j])
           last  == CHOOSE i \in 1..Len(s) :
                      ~isSpace(s[i]) /\ \A j \in (i+1)..Len(s) : isSpace(s[j])
       IN  SubSeq(s, first, last)

\* String.prototype.indexOf(c), 1-based; 0 when c does not occur
indexOf(s, c) ==
  IF \E i \in 1..Len(s) : s[i] = c
  THEN CHOOSE i \in 1..Len(s) : s[i] = c /\ \A j \in 1..(i-1) : s[j] # c
  ELSE 0

\* s.split(/\s+/): the pieces between runs of white space
RECURSIVE splitWhitespace(_)
splitWhitespace(s) ==
  IF \A i \in 1..Len(s) : ~isSpace(s[i]) THEN <<s>>
  ELSE LET i == CHOOSE k \in 1..Len(s) :
                  isSpace(s[k]) /\ \A j \in 1..(k-1) : ~isSpace(s[j])
           rest == SubSeq(s, i, Len(s))
           j == IF \A k \in 1..Len(rest) : isSpace(rest[k]) THEN Len(rest) + 1
                ELSE CHOOSE k \in 1..Len(rest) :
                       ~isSpace(rest[k]) /\ \A m \in 1..(k-1) : isSpace(rest[m])
       IN  <<SubSeq(s, 1, i - 1)>> \o splitWhitespace(SubSeq(rest, j, Len(rest)))

\* s.split(/\s+/, limit): at most limit pieces
splitWhitespaceLimit(s, limit) ==
  LET parts == splitWhitespace(s)
  IN  IF Len(parts) > limit THEN SubSeq(parts, 1, limit) ELSE parts

\* a mapping that keeps the first value stored under a key
metaKeepFirst(meta, key, value) ==
  [k \in (DOMAIN meta) \cup {key} |-> IF k \in DOMAIN meta THEN meta[k] ELSE value]

\* meta[key] = value
metaSet(meta, key, value) ==
  [k \in (DOMAIN meta) \cup {key} |-> IF k = key THEN value ELSE meta[k]]

\* the forEach body of parseDscText on a trimmed line that is no comment
parseDscTrimmed(meta, trimmed, eqIdx, parts) ==
  IF eqIdx # 0
  THEN IF trim(SubSeq(trimmed, 1, eqIdx - 1)) # <<>>
       THEN metaSet(meta, toUpperCase(trim(SubSeq(trimmed, 1, eqIdx - 1))),
                    trim(SubSeq(trimmed, eqIdx + 1, Len(trimmed))))
       ELSE meta
  ELSE IF Len(parts) = 2 /\ parts[1] # <<>>
       THEN metaSet(meta, toUpperCase(trim(parts[1])), trim(parts[2]))
  ELSE meta

skipsLine(trimmed) == trimmed = <<>> \/ startsWith(trimmed, <<"*">>)

parseDscLineTrimmed(meta, trimmed) ==
  IF skipsLine(trimmed) THEN meta
  ELSE parseDscTrimmed(meta, trimmed, indexOf(trimmed, "="),
                       splitWhitespaceLimit(trimmed, 2))

\* the body of parseDscText's forEach for one line
parseDscLine(meta, line) == parseDscLineTrimmed(meta, trim(line))

\* parseDscText(text): the lines folded in order into an empty mapping
RECURSIVE parseDscFrom(_, _)
parseDscFrom(meta, lines) ==
  IF lines = <<>> THEN meta
  ELSE parseDscFrom(parseDscLine(meta, Head(lines)), Tail(lines))

parseDscText(text) == parseDscFrom(<<>>, text)

Digits == <<"0", "1", "2", "3", "4", "5", "6", "7", "8", "9">>

isDigit(c) == \E d \in 1..Len(Digits) : Digits[d] = c

digitValue(c) == (CHOOSE d \in 1..Len(Digits) : Digits[d] = c) - 1

RECURSIVE natOfDigits(_)
natOfDigits(s) ==
  IF s = <<>> THEN 0
  ELSE natOfDigits(SubSeq(s, 1, Len(s) - 1)) * 10 + digitValue(s[Len(s)])

allDigits(s) == s # <<>> /\ \A i \in 1..Len(s) : isDigit(s[i])

\* Number(v) of trimmed text, for integer literals: '' is 0, other text is NaN
numberOfTrimmed(t) ==
  IF t = <<>> THEN [finite |-> TRUE, n |-> 0]
  ELSE IF allDigits(t) THEN [finite |-> TRUE, n |-> natOfDigits(t)]
  ELSE IF t[1] = "-" /\ allDigits(Tail(t))
       THEN [finite |-> TRUE, n |-> 0 - natOfDigits(Tail(t))]
  ELSE [finite |-> FALSE, n |-> 0]

\* Number(v)
toNumber(v) == numberOfTrimmed(trim(v))

\* a number that is undefined or not finite
NotFinite == [finite |-> FALSE, n |-> 0]

\* Number.isFinite(n) ? Math.trunc(n) : fallback
finiteOr(num, fallback) == IF num.finite THEN num.n ELSE fallback

\* getInt(meta, key, fallback)
getInt(meta, key, fallback) ==
  IF key \notin DOMAIN meta THEN fallback ELSE finiteOr(toNumber(meta[key]), fallback)

\* getFloat(meta, key): undefined when the key is absent or its value not finite
getFloat(meta, key) ==
  IF key \notin DOMAIN meta THEN NotFinite ELSE toNumber(meta[key])

\* getStr(meta, key, fallback)
getStr(meta, key, fallback) ==
  IF key \in DOMAIN meta THEN meta[key] ELSE fallback

\* endianFromBseq(meta)
endianFromBseq(meta) ==
  IF startsWith(toUpperCase(getStr(meta, <<"B","S","E","Q">>, <<>>)), <<"B","I","G">>)
  THEN "BE" ELSE "LE"

\* dtypeFromIrfmt(irfmt)
dtypeFromIrfmt(irfmt) ==
  LET code == toUpperCase(trim(irfmt))
  IN  IF code = <<"D">> THEN [size |-> 8, reader |-> "f64"]
      ELSE IF code = <<"I">> THEN [size |-> 4, reader |-> "i32"]
      ELSE [size |-> 4, reader |-> "f32"]

\* isComplex(meta)
isComplex(meta) ==
  \/ includes(toUpperCase(getStr(meta, <<"I","K","K","F">>, <<>>)), <<"C","P","L","X">>)
  \/ <<"I","I","F","M","T">> \in DOMAIN meta

\* axisGuess(meta, axis, points)
axisGuess(meta, axis, points) ==
  [defined |-> TRUE,
   name   |-> getStr(meta, <<axis, "N", "A", "M">>, <<>>),
   unit   |-> getStr(meta, <<axis, "U", "N", "I">>, <<>>),
   points |-> points,
   min    |-> getFloat(meta, <<axis, "M", "I", "N">>),
   width  |-> getFloat(meta, <<axis, "W", "I", "D">>),
   start  |-> getFloat(meta, <<axis, "S", "T", "R", "T">>),
   stop   |-> getFloat(meta, <<axis, "S", "T", "O", "P">>)]

\* axisVector(ax); the descriptors of the model make every quotient exact
axisVector(ax) ==
  LET den == IF ax.points - 1 # 0 THEN ax.points - 1 ELSE 1
  IN  IF ax.min.finite /\ ax.width.finite
      THEN [i \in 1..ax.points |-> ax.min.n + (ax.width.n * (i - 1)) \div den]
      ELSE IF ax.start.finite /\ ax.stop.finite
      THEN [i \in 1..ax.points |->
              IF ax.points = 1 THEN ax.start.n
              ELSE ax.start.n + ((i - 1) * (ax.stop.n - ax.start.n)) \div den]
      ELSE indexRamp(ax.points)

\* DataView.getX(offset, littleEndian) is a function of the element's bytes in
\* order of significance: here their value as a base-256 numeral, reduced
\* modulo a prime to stay within TLC's integers
RECURSIVE bytesValue(_)
bytesValue(msbFirst) ==
  IF msbFirst = <<>> THEN 0
  ELSE (bytesValue(SubSeq(msbFirst, 1, Len(msbFirst) - 1)) * 256
        + msbFirst[Len(msbFirst)]) % 1000003

reverse(s) == [i \in 1..Len(s) |-> s[Len(s) + 1 - i]]

readElement(buffer, offset, size, endian) ==
  LET raw == SubSeq(buffer, offset + 1, offset + size)
  IN  bytesValue(IF endian = "LE" THEN reverse(raw) ELSE raw)

\* a trailing partial element is dropped instead of raising
readBinaryFloor(buffer, dtype, endian) ==
  [threw |-> FALSE,
   out   |-> [i \in 1..(Len(buffer) \div dtype.size) |->
                readElement(buffer, (i - 1) * dtype.size, dtype.size, endian)]]

\* readBinary(buffer, dtype, endian): the loop runs while i < byteLength/size,
\* so a trailing partial element is read past the end and DataView throws
readBinary(buffer, dtype, endian) ==
  IF Len(buffer) % dtype.size # 0 THEN [threw |-> TRUE, out |-> <<>>]
  ELSE [threw |-> FALSE,
        out   |-> [i \in 1..(Len(buffer) \div dtype.size) |->
                     readElement(buffer, (i - 1) * dtype.size, dtype.size, endian)]]

(***************************************************************************)
(* Strategy A: one dataset folder (mockApi.ts 258-359)                     *)
(***************************************************************************)
\* axisList.find(ax => (ax.axis_id || '').toUpperCase() === id) || axisList[k]
findAxis(axisList, id, k) ==
  IF \E i \in 1..Len(axisList) : toUpperCase(axisList[i].axis_id) = id
  THEN axisList[CHOOSE i \in 1..Len(axisList) :
                  /\ toUpperCase(axisList[i].axis_id) = id
                  /\ \A j \in 1..(i-1) : toUpperCase(axisList[j].axis_id) # id]
  ELSE IF k <= Len(axisList) THEN axisList[k] ELSE NoAxis

\* ---------------------------------------------------------------------------
\* parseParamsFromName
\* ---------------------------------------------------------------------------

\* the index of the last '.' of s, 0 when there is none
lastIndexOfDot(s) ==
  IF \E i \in 1..Len(s) : s[i] = "."
  THEN CHOOSE i \in 1..Len(s) : s[i] = "." /\ \A j \in (i + 1)..Len(s) : s[j] # "."
  ELSE 0

\* rawName.replace(/\.[^.]+$/, ''): the last '.' and what follows it are cut
\* when at least one character follows
stripExtension(rawName) ==
  IF lastIndexOfDot(rawName) > 0 /\ lastIndexOfDot(rawName) < Len(rawName)
  THEN SubSeq(rawName, 1, lastIndexOfDot(rawName) - 1)
  ELSE rawName

\* base.split('_').filter(Boolean)
RECURSIVE splitUnderscore(_)
splitUnderscore(s) ==
  IF s = <<>> THEN <<>>
  ELSE IF s[1] = "_" THEN splitUnderscore(Tail(s))
  ELSE IF \E i \in 1..Len(s) : s[i] = "_"
       THEN <<SubSeq(s, 1, indexOf(s, "_") - 1)>>
              \o splitUnderscore(SubSeq(s, indexOf(s, "_") + 1, Len(s)))
       ELSE <<s>>

\* the last index of the run of digits of s that starts at i
digitRunEnd(s, i) ==
  CHOOSE j \in i..Len(s) :
    /\ \A k \in i..j : isDigit(s[k])
    /\ (j = Len(s) \/ ~isDigit(s[j + 1]))

isSeparator(c) == c = "p" \/ c = "."

\* s has sub at position i
hasAt(s, i, sub) == i + Len(sub) - 1 <= Len(s) /\ SubSeq(s, i, i + Len(sub) - 1) = sub

\* the end of \d+(?:[p.]\d+)? taken greedily from the digit at i
numberEndLong(s, i) ==
  IF /\ digitRunEnd(s, i) + 2 <= Len(s)
     /\ isSeparator(s[digitRunEnd(s, i) + 1])
     /\ isDigit(s[digitRunEnd(s, i) + 2])
  THEN digitRunEnd(s, digitRunEnd(s, i) + 2)
  ELSE digitRunEnd(s, i)

\* the group matched by prefix(\d+(?:[p.]\d+)?)suffix with the prefix at i
matchAt(s, i, prefix, suffix) ==
  IF ~hasAt(s, i, prefix) \/ i + Len(prefix) > Len(s) \/ ~isDigit(s[i + Len(prefix)])
  THEN Null
  ELSE IF hasAt(s, numberEndLong(s, i + Len(prefix)) + 1, suffix)
  THEN Some(SubSeq(s, i + Len(prefix), numberEndLong(s, i + Len(prefix))))
  ELSE IF hasAt(s, digitRunEnd(s, i + Len(prefix)) + 1, suffix)
  THEN Some(SubSeq(s, i + Len(prefix), digitRunEnd(s, i + Len(prefix))))
  ELSE Null

\* lower.match(/prefix(\d+(?:[p.]\d+)?)suffix/): the group of the leftmost match
matchNumber(s, prefix, suffix) ==
  IF \E i \in 1..Len(s) : matchAt(s, i, prefix, suffix).some
  THEN matchAt(s, CHOOSE i \in 1..Len(s) :
                    /\ matchAt(s, i, prefix, suffix).some
                    /\ \A j \in 1..(i - 1) : ~matchAt(s, j, prefix, suffix).some,
               prefix, suffix)
  ELSE Null

\* text.replace('p', '.'): the first 'p' becomes '.'
replaceP(text) ==
  IF \E i \in 1..Len(text) : text[i] = "p"
  THEN [i \in 1..Len(text) |-> IF i = indexOf(text, "p") THEN "." ELSE text[i]]
  ELSE text

\* a decimal number n / 10^places without trailing zeros in its fraction
RECURSIVE Decimal(_, _)
Decimal(n, places) ==
  IF places > 0 /\ n % 10 = 0 THEN Decimal(n \div 10, places - 1)
  ELSE [n |-> n, places |-> places]

\* Number(text) for a literal of digits with at most one '.' among them
numberOfLiteral(text) ==
  IF \E i \in 1..Len(text) : text[i] = "."
  THEN Decimal(natOfDigits(SubSeq(text, 1, indexOf(text, ".") - 1)
                             \o SubSeq(text, indexOf(text, ".") + 1, Len(text))),
               Len(text) - indexOf(text, "."))
  ELSE Decimal(natOfDigits(text), 0)

\* the value one token gives a parameter, Null when its pattern does not match
tokenValue(tok, prefix, suffix) ==
  IF matchNumber(toLowerCase(tok), prefix, suffix).some
  THEN Some(numberOfLiteral(replaceP(matchNumber(toLowerCase(tok), prefix, suffix).v)))
  ELSE Null

\* the loop over the tokens: a later matching token overwrites the value
RECURSIVE paramOf(_, _, _)
paramOf(tokens, prefix, suffix) ==
  IF tokens = <<>> THEN Null
  ELSE IF tokenValue(tokens[Len(tokens)], prefix, suffix).some
       THEN tokenValue(tokens[Len(tokens)], prefix, suffix)
       ELSE paramOf(SubSeq(tokens, 1, Len(tokens) - 1), prefix, suffix)

paramsOfTokens(base, tokens) ==
  [sampleName |-> IF tokens = <<>> THEN base ELSE tokens[1],
   temperatureK |-> paramOf(tokens, <<>>, <<"k">>),
   fieldG |-> paramOf(tokens, <<>>, <<"g">>),
   amplifierDb |-> paramOf(tokens, <<"h","p","a">>, <<"d","b">>),
   pulseWidth |-> paramOf(tokens, <<"p">>, <<>>),
   spectralWidth |-> paramOf(tokens, <<"s","w">>, <<>>),
   tokens |-> tokens]

parseParamsFromName(rawName) ==
  paramsOfTokens(stripExtension(rawName), splitUnderscore(stripExtension(rawName)))

\* the 1-D record both 1-D paths of parseSpectrumFromFolder build
spectrum1DFromRows(rows, xAxis, xAxisMeta, datasetName, spectrumType1D) ==
  LET built     == build1DFromCsv(rows)
      resolvedX == IF xAxis.some /\ Len(xAxis.v) = Len(built.realData)
                   THEN xAxis.v ELSE built.xData
  IN  [id       |-> 0,
       filename |-> datasetName,
       type     |-> spectrumType1D,
       xLabel   |-> axisLabel(xAxisMeta, <<"X">>),
       yLabel   |-> INTENSITY,
       xData    |-> normalizeXForTimeType(resolvedX, spectrumType1D,
                                          axisLabel(xAxisMeta, <<"X">>)),
       realData |-> built.realData,
       imagData |-> built.imagData]

\* the 2-D record of parseSpectrumFromFolder's matrix path
spectrum2DFromMatrix(realMatrix, xAxis, yAxis, xAxisMeta, yAxisMeta, datasetName, family) ==
  LET xPoints == Len(realMatrix[1])
      yPoints == Len(realMatrix)
      xData   == buildAxis(xAxis, xPoints)
      yData   == buildAxis(yAxis, yPoints)
  IN  [id       |-> 0,
       filename |-> datasetName,
       type     |-> inferSpectrumType(datasetName, family, TRUE),
       xLabel   |-> axisLabel(xAxisMeta, <<"X">>),
       yLabel   |-> axisLabel(yAxisMeta, <<"Y">>),
       xData    |-> xData.v,
       yData    |-> yData.v,
       zData    |-> realMatrix]

Threw == [threw |-> TRUE]

Returned(spectrum) == [threw |-> FALSE, spectrum |-> spectrum]

\* metadata?.dataset_header?.dataset_name || folder.split('/').filter(Boolean).pop() || 'dataset'
datasetNameOf(folder, metadata) ==
  IF metadata.dataset_name # <<>> THEN metadata.dataset_name
  ELSE IF lastNonEmptySegment(folder) # <<>> THEN lastNonEmptySegment(folder)
  ELSE DATASET

\* looks2D (314-316)
looks2D(yAxisMeta, realMatrix) ==
  \/ yAxisMeta.defined /\ yAxisMeta.points > 1
  \/ Len(realMatrix) > 1 /\ Len(realMatrix[1]) > 2

\* the matrix path of parseSpectrumFromFolder, from the parsed matrix on (310-358)
matrixPath(realMatrix, xAxis, yAxis, xAxisMeta, yAxisMeta, datasetName, family, type1D) ==
  IF Len(realMatrix) = 0 THEN Threw
  ELSE IF ~looks2D(yAxisMeta, realMatrix) /\ Len(realMatrix[1]) <= 2
  THEN Returned(spectrum1DFromRows(realMatrix, xAxis, xAxisMeta, datasetName, type1D))
  ELSE Returned(spectrum2DFromMatrix(realMatrix, xAxis, yAxis, xAxisMeta, yAxisMeta,
                                     datasetName, family))

\* parseSpectrumFromFolder from the reading of data.csv on (279-358)
tablePath(dataCsv, realTxt, xAxis, yAxis, xAxisMeta, yAxisMeta, datasetName, family, type1D) ==
  IF ~textIsFalsy(dataCsv)
  THEN Returned(spectrum1DFromRows(parseCsv(dataCsv.v), xAxis, xAxisMeta,
                                   datasetName, type1D))
  ELSE IF textIsFalsy(realTxt) THEN Threw
  ELSE matrixPath(parseCsv(realTxt.v), xAxis, yAxis, xAxisMeta, yAxisMeta,
                  datasetName, family, type1D)

\* parseSpectrumFromFolder once the axis descriptions are found (272-358)
folderWithAxes(zip, prefix, datasetName, family, xAxisMeta, yAxisMeta) ==
  tablePath(readTextIfExists(zip, prefix \o DATA_CSV),
            readTextIfExists(zip, prefix \o DATA_REAL_CSV),
            normalizeAxisStart(readAxisCsv(zip, prefix, AXES_X_CSV, xAxisMeta.points),
                               xAxisMeta),
            normalizeAxisStart(readAxisCsv(zip, prefix, AXES_Y_CSV, yAxisMeta.points),
                               yAxisMeta),
            xAxisMeta, yAxisMeta, datasetName, family,
            inferSpectrumType(datasetName, family, FALSE))

\* the spectrum record with its parsedParams field
withParams(spectrum, parsedParams) ==
  [f \in (DOMAIN spectrum) \cup {"parsedParams"} |->
     IF f = "parsedParams" THEN parsedParams ELSE spectrum[f]]

\* parsedParams, computed at the head of the function (263, 548), is a field
\* of whichever spectrum record is built
paramsAdded(parsed, parsedParams) ==
  IF parsed.threw THEN parsed
  ELSE [parsed EXCEPT !.spectrum = withParams(parsed.spectrum, parsedParams)]

\* parseSpectrumFromFolder(zip, folder, metadata)
parseSpectrumFromFolder(zip, folder, metadata) ==
  paramsAdded(folderWithAxes(zip, IF folder # <<>> THEN folder \o <<"/">> ELSE <<>>,
                             datasetNameOf(folder, metadata), metadata.experiment_family,
                             findAxis(metadata.axes, <<"X">>, 1),
                             findAxis(metadata.axes, <<"Y">>, 2)),
              parseParamsFromName(datasetNameOf(folder, metadata)))

(***************************************************************************)
(* Strategy B: one descriptor (mockApi.ts 530-634)                         *)
(***************************************************************************)
\* zip.file(regex): the members whose name, case-insensitively, ends with suffix
isDta(m) == endsWith(toLowerCase(m.name), DOT_DTA)

isDsc(m) == endsWith(toLowerCase(m.name), DOT_DSC)

isMetadataJson(m) ==
  /\ endsWith(toLowerCase(m.name), METADATA_JSON)
  /\ ~endsWith(toLowerCase(m.name), METADATA_DSC_RAW_JSON)

\* dtaLookup(dir, base): index of the paired member in zip, 0 when there is none
dtaLookup(zip, dir, base) ==
  LET wanted    == toLowerCase(base) \o DOT_DTA
      named(i)  == isDta(zip[i]) /\ endsWith(toLowerCase(zip[i].name), wanted)
      inDir(i)  == named(i) /\ toFolder(zip[i].name) = dir
  IN  IF \E i \in 1..Len(zip) : inDir(i)
      THEN CHOOSE i \in 1..Len(zip) : inDir(i) /\ \A j \in 1..(i-1) : ~inDir(j)
      ELSE IF \E i \in 1..Len(zip) : named(i)
      THEN CHOOSE i \in 1..Len(zip) : named(i) /\ \A j \in 1..(i-1) : ~named(j)
      ELSE 0

\* the first half of the numbers as real, the second half as imaginary
splitHalves(numbers, npts, complexFlag) ==
  IF complexFlag
  THEN [real |-> SubSeq(numbers, 1, npts),
        imag |-> SubSeq(numbers, npts + 1, 2 * npts)]
  ELSE [real |-> numbers,
        imag |-> [i \in 1..npts |-> 0]]

\* the real and imaginary channels of the decoded numbers (575-585)
splitChannels(numbers, npts, complexFlag) ==
  IF complexFlag
  THEN [real |-> [i \in 1..npts |-> numbers[2 * i - 1]],
        imag |-> [i \in 1..npts |-> numbers[2 * i]]]
  ELSE [real |-> numbers,
        imag |-> [i \in 1..npts |-> 0]]

\* numbers.length !== expected (569-570)
sizeMismatch(numbers, npts, complexFlag) ==
  Len(numbers) # npts * (IF complexFlag THEN 2 ELSE 1)

\* entry.name.split('/').pop()?.replace(/\.dsc$/i, '') || 'dataset'
dscBase(name) ==
  LET last == lastSegment(name)
      cut  == IF endsWith(toLowerCase(last), DOT_DSC)
              THEN SubSeq(last, 1, Len(last) - Len(DOT_DSC)) ELSE last
  IN  IF cut # <<>> THEN cut ELSE DATASET

\* the spectrum record built for an accepted descriptor (598-634), id not set
rawRecord(filename, type, xAxisMeta, yAxisMeta, xVector, yVector, xpts, ypts, real, imag) ==
  IF ypts > 1
  THEN [id       |-> 0,
        filename |-> filename,
        type     |-> type,
        xLabel   |-> axisLabel(xAxisMeta, <<"X">>),
        yLabel   |-> axisLabel(yAxisMeta, <<"Y">>),
        xData    |-> xVector,
        yData    |-> IF yVector.some THEN yVector.v ELSE indexRamp(ypts),
        zData    |-> [row \in 1..ypts |->
                        SubSeq(real, (row - 1) * xpts + 1, row * xpts)]]
  ELSE [id       |-> 0,
        filename |-> filename,
        type     |-> type,
        xLabel   |-> axisLabel(xAxisMeta, <<"X">>),
        yLabel   |-> INTENSITY,
        xData    |-> xVector,
        realData |-> real,
        imagData |-> imag]

\* the axis vectors of an accepted descriptor (594-599)
rawWithAxes(filename, type, xAxisMeta, yAxisMeta, xpts, ypts, real, imag) ==
  rawRecord(filename, type, xAxisMeta, yAxisMeta,
            normalizeXForTimeType(
              normalizeAxisStart(Some(axisVector(xAxisMeta)), xAxisMeta).v,
              type, axisLabel(xAxisMeta, <<"X">>)),
            normalizeAxisStart(IF ypts > 1 THEN Some(axisVector(yAxisMeta)) ELSE Null,
                               yAxisMeta),
            xpts, ypts, real, imag)

\* the name and experiment type of an accepted descriptor (588-593)
rawNamed(meta, filename, xpts, ypts, real, imag) ==
  rawWithAxes(filename,
              inferSpectrumType(filename, getStr(meta, <<"E","X","P","T">>, <<>>), ypts > 1),
              axisGuess(meta, "X", xpts),
              axisGuess(meta, "Y", IF ypts > 0 THEN ypts ELSE 1),
              xpts, ypts, real, imag)

\* the spectrum of an accepted descriptor (587-634), id not set
rawSpectrum(meta, base, xpts, ypts, real, imag) ==
  rawNamed(meta, getStr(meta, <<"T","I","T","L">>, base \o DOT_DSC), xpts, ypts, real, imag)

Skipped(dta) == [threw |-> TRUE, dta |-> dta, numbers |-> <<>>, real |-> <<>>,
                 imag |-> <<>>]

\* an accepted descriptor: its channels and its spectrum (575-634)
rawAccepted(meta, base, dta, xpts, ypts, numbers, chan) ==
  [threw    |-> FALSE,
   dta      |-> dta,
   numbers  |-> numbers,
   real     |-> chan.real,
   imag     |-> chan.imag,
   spectrum |-> withParams(rawSpectrum(meta, base, xpts, ypts, chan.real, chan.imag),
                           parseParamsFromName(base))]

\* the loop body from the decoded numbers on (568-634); a throw of readBinary
\* is caught by the loop's catch
rawChecked(meta, base, dta, xpts, ypts, complexFlag, read) ==
  IF read.threw THEN Skipped(dta)
  ELSE IF sizeMismatch(read.out, xpts * ypts, complexFlag) THEN Skipped(dta)
  ELSE rawAccepted(meta, base, dta, xpts, ypts, read.out,
                   splitChannels(read.out, xpts * ypts, complexFlag))

\* the loop body from the lookup of the .dta on (549-634)
rawPaired(zip, meta, base, dta, xpts, ypts) ==
  IF dta = 0 THEN Skipped(0)
  ELSE IF xpts <= 0 THEN Skipped(0)
  ELSE rawChecked(meta, base, dta, xpts, ypts, isComplex(meta),
                  readBinary(zip[dta].bytes,
                             dtypeFromIrfmt(getStr(meta, <<"I","R","F","M","T">>, <<"F">>)),
                             endianFromBseq(meta)))

\* the loop body once the descriptor text is parsed (546-634)
rawFromMeta(zip, name, meta, base) ==
  rawPaired(zip, meta, base, dtaLookup(zip, toFolder(name), base),
            getInt(meta, <<"X","P","T","S">>, 0), getInt(meta, <<"Y","P","T","S">>, 1))

\* the body of parseRawBes3t's loop for one descriptor member: the spectrum, or
\* a skip (continue or caught exception); dta is the index of the member whose
\* bytes were read, 0 when none was read
parseRawEntry(zip, entry) ==
  rawFromMeta(zip, entry.name, parseDscText(entry.text), dscBase(entry.name))

(***************************************************************************)
(* Archives: the inputs the model draws parseZipArchive's argument from    *)
(***************************************************************************)
\* A member of the ZIP: its path and its content, as text lines (a .csv or a
\* .dsc), as parsed JSON (valid = FALSE: JSON.parse throws) and as bytes.
NoJson == [valid |-> FALSE, dataset_name |-> <<>>, axes |-> <<>>,
           experiment_family |-> <<>>]

TextMember(name, text) == [name |-> name, text |-> text, json |-> NoJson, bytes |-> <<>>]

JsonMember(name, json) == [name |-> name, text |-> <<>>, json |-> json, bytes |-> <<>>]

BinMember(name, bytes) == [name |-> name, text |-> <<>>, json |-> NoJson, bytes |-> bytes]

RECURSIVE numToText(_)
numToText(n) ==
  IF n < 0 THEN <<"-">> \o numToText(0 - n)
  ELSE IF n < 10 THEN <<Digits[n + 1]>>
  ELSE numToText(n \div 10) \o <<Digits[(n % 10) + 1]>>

dirPrefix(dir) == IF dir = <<>> THEN <<>> ELSE dir \o <<"/">>

\* ---- structured-export folders ----
TimeAxisX(points) == [defined |-> TRUE, axis_id |-> <<"X">>, name |-> <<"T","i","m","e">>,
                      unit |-> <<"n","s">>, points |-> points]

FieldAxisX(points) == [defined |-> TRUE, axis_id |-> <<"x">>, name |-> <<"F","i","e","l","d">>,
                       unit |-> <<"G">>, points |-> points]

\* an X axis known by its unit only, without a point count
NsAxisX == [defined |-> TRUE, axis_id |-> <<"X">>, name |-> <<>>, unit |-> <<"n","s">>,
            points |-> 0]

AxisY(points) == [defined |-> TRUE, axis_id |-> <<"Y">>, name |-> <<>>, unit |-> <<>>,
                  points |-> points]

Json(name, axes) == [valid |-> TRUE, dataset_name |-> name, axes |-> axes,
                     experiment_family |-> <<>>]

ValidJsons ==
  { Json(<<"s","_","T","1">>, ax) :
      ax \in { <<TimeAxisX(xp), AxisY(yp)>> : xp \in {0, MaxPts}, yp \in {1, 2} }
             \cup { <<FieldAxisX(MaxPts)>>, <<>> } }
  \cup { Json(<<>>, <<TimeAxisX(MaxPts), AxisY(1)>>), Json(<<>>, <<>>),
         Json(<<"c","w">>, <<NsAxisX>>) }

\* a table of r rows and c numeric cells per row: cell (i, j) holds 10*i + j
NumTable(r, c) == [i \in 1..r |-> [j \in 1..c |-> NumCell(10 * i + j)]]

\* the CSV members of a folder: data.csv and data_real.csv variants
DataTables ==
  {<<>>}
  \cup { <<[file |-> DATA_CSV, text |-> t]>> :
           t \in { <<>>, << <<NanCell, NanCell>> >> }
                 \cup { NumTable(MaxPts, c) : c \in 1..3 }
                 \cup { << <<NumCell(7), NumCell(8)>>, <<>>, <<NumCell(5), EmptyCell>> >> } }
  \cup { <<[file |-> DATA_REAL_CSV, text |-> t]>> :
           t \in { << <<>> >>, << <<NanCell>> >> }
                 \cup { NumTable(r, c) : r \in {1, MaxPts}, c \in {2, 3} }
                 \cup { << <<NumCell(1), NumCell(2), NumCell(3)>>,
                           <<NumCell(4), NumCell(5)>> >>,
                        << <<NumCell(1), NanCell, NumCell(3)>>,
                           <<NumCell(4), NumCell(5), NumCell(6)>> >> } }

AxisTables ==
  { <<[file |-> AXES_X_CSV, text |-> [i \in 1..MaxPts |-> <<NumCell(4 + i)>>]]>>,
    <<[file |-> AXES_X_CSV, text |-> [i \in 1..MaxPts |-> <<NumCell(9 - i)>>]]>>,
    <<[file |-> AXES_X_CSV, text |-> [i \in 1..(MaxPts + 1) |-> <<NumCell(6 - i)>>]],
      [file |-> AXES_Y_CSV, text |-> << <<NumCell(3), NumCell(4)>> >>]>> }

\* a folder description: its metadata.json and its CSV members
FolderCases ==
  { [kind |-> "A", json |-> NoJson, csv |-> <<[file |-> DATA_CSV, text |-> NumTable(1, 2)]>>] }
  \cup { [kind |-> "A", json |-> j, csv |-> d] : j \in ValidJsons, d \in DataTables }
  \cup { [kind |-> "A", json |-> Json(nm, <<TimeAxisX(MaxPts), AxisY(yp)>>), csv |-> d \o a] :
           nm \in { <<"s","_","T","1">>, <<"c","w">> }, yp \in {1, 2},
           d \in { <<[file |-> f, text |-> NumTable(MaxPts, c)]>> :
                     f \in {DATA_CSV, DATA_REAL_CSV}, c \in {2, 3} },
           a \in AxisTables }

\* ---- raw descriptor/binary pairs ----
DscLine(key, value) == key \o <<"=">> \o value

\* element k of a buffer (k = 1, 2, ...) encodes the number k
encodeElement(k, size, endian) ==
  LET msbFirst == [i \in 1..size |-> IF i = size THEN k ELSE 0]
  IN  IF endian = "LE" THEN reverse(msbFirst) ELSE msbFirst

bufferOf(n, size, endian, extra) ==
  flat([k \in 1..n |-> encodeElement(k, size, endian)]) \o [i \in 1..extra |-> 255]

YptsLines == { <<>> } \cup { <<DscLine(<<"Y","P","T","S">>, numToText(n))>> : n \in 0..2 }

ComplexLines == { <<>>,
                  <<DscLine(<<"I","K","K","F">>, <<"C","P","L","X">>)>>,
                  <<DscLine(<<"I","K","K","F">>, <<"R","E","A","L">>),
                    DscLine(<<"I","I","F","M","T">>, <<"D">>)>> }

FormatLines == { <<>>,
                 <<DscLine(<<"I","R","F","M","T">>, <<"D">>)>>,
                 <<DscLine(<<"B","S","E","Q">>, <<"B","I","G">>)>> }

AxisLines == { <<>>,
               <<DscLine(<<"T","I","T","L">>, <<"s","_","T","1">>),
                 DscLine(<<"X","U","N","I">>, <<"n","s">>),
                 DscLine(<<"X","M","I","N">>, <<"1","0">>),
                 DscLine(<<"X","W","I","D">>, <<"3","0">>)>>,
               <<DscLine(<<"T","I","T","L">>, <<"s","_","T","1">>),
                 DscLine(<<"X","U","N","I">>, <<"n","s">>),
                 DscLine(<<"X","M","I","N">>, <<"1","0">>),
                 DscLine(<<"X","W","I","D">>, <<"-","3","0">>)>> }

\* the number of elements a descriptor declares
DeclaredElements(text) ==
  LET meta == parseDscText(text)
  IN  getInt(meta, <<"X","P","T","S">>, 0) * getInt(meta, <<"Y","P","T","S">>, 1)
        * (IF isComplex(meta) THEN 2 ELSE 1)

\* the element counts tried for the .dta of a descriptor: around the count the
\* descriptor declares, and none; -1 stands for "no .dta member"
DtaCounts(text) ==
  { n \in {-1, 0, DeclaredElements(text) - 1, DeclaredElements(text), DeclaredElements(text) + 1} :
      n >= -1 }

PairCase(text, n, extra) ==
  LET meta == parseDscText(text)
  IN  [kind |-> "B", text |-> text, hasDta |-> n >= 0,
       bytes |-> IF n < 0 THEN <<>>
                 ELSE bufferOf(n, dtypeFromIrfmt(getStr(meta, <<"I","R","F","M","T">>,
                                                        <<"F">>)).size,
                               endianFromBseq(meta), extra)]

XptsPositive == { <<DscLine(<<"X","P","T","S">>, numToText(n))>> : n \in 1..MaxPts }

\* descriptors varying the declared counts and the complex flag
CountTexts ==
  { x \o y \o c : x \in XptsPositive, y \in YptsLines, c \in ComplexLines }
  \cup { <<>>, <<DscLine(<<"X","P","T","S">>, <<"0">>)>>,
         <<DscLine(<<"X","P","T","S">>, <<"-","1">>),
           DscLine(<<"Y","P","T","S">>, <<"-","1">>)>>,
         <<DscLine(<<"X","P","T","S">>, <<"x">>)>> }

\* descriptors varying the element format, the title and the axis
FormatTexts ==
  { x \o y \o c \o f \o a :
      x \in { <<DscLine(<<"X","P","T","S">>, numToText(MaxPts))>> },
      y \in { <<>>, <<DscLine(<<"Y","P","T","S">>, <<"2">>)>> },
      c \in { <<>>, <<DscLine(<<"I","K","K","F">>, <<"C","P","L","X">>)>> },
      f \in FormatLines, a \in AxisLines }

PairCases ==
  UNION { { PairCase(t, n, 0) : n \in DtaCounts(t) } \cup { PairCase(t, DeclaredElements(t), 2) } :
          t \in CountTexts }
  \cup UNION { { PairCase(t, DeclaredElements(t), 0), PairCase(t, DeclaredElements(t), 4) } :
               t \in FormatTexts }

\* the datasets that accompany the one under study
SimpleFolder == [kind |-> "A",
                 json |-> [valid |-> TRUE, dataset_name |-> <<"c","w">>, axes |-> <<>>,
                           experiment_family |-> <<>>],
                 csv  |-> <<[file |-> DATA_CSV, text |-> NumTable(1, 2)]>>]

BrokenFolder == [kind |-> "A", json |-> NoJson, csv |-> <<>>]

SimplePair == PairCase(<<DscLine(<<"X","P","T","S">>, <<"1">>)>>, 1, 0)

BrokenPair == PairCase(<<DscLine(<<"X","P","T","S">>, <<"1">>)>>, 2, 0)

CompanionCases == << SimpleFolder, BrokenFolder, SimplePair, BrokenPair >>

Letters == <<"a", "b", "c", "d", "e">>

\* the folders datasets are placed in: the archive root, a, b, ...
DirAt(k) == IF k = 1 THEN <<>> ELSE <<Letters[k - 1]>>

\* the members of one dataset placed in folder dir
membersOf(case, dir) ==
  IF case.kind = "A"
  THEN <<JsonMember(dirPrefix(dir) \o METADATA_JSON, case.json)>>
       \o [i \in 1..Len(case.csv) |->
             TextMember(dirPrefix(dir) \o case.csv[i].file, case.csv[i].text)]
  ELSE (IF case.hasDta
        THEN <<BinMember(dirPrefix(dir) \o <<"s">> \o DOT_DTA, case.bytes)>> ELSE <<>>)
       \o <<TextMember(dirPrefix(dir) \o <<"s">> \o DOT_DSC, case.text)>>

\* the choices of n companions; their order is left to the placement
CompanionChoices(n) ==
  { c \in [1..n -> 1..Len(CompanionCases)] : \A i \in 1..(n - 1) : c[i] <= c[i + 1] }

\* the datasets under study: every case when there is at most one companion,
\* the four simple ones in larger archives
FocusCases(n) ==
  IF n <= 1 THEN FolderCases \cup PairCases
  ELSE { CompanionCases[i] : i \in 1..Len(CompanionCases) }

\* one dataset under study, then n companions
CaseLists(n) ==
  { <<f>> \o [i \in 1..n |-> CompanionCases[c[i]]] :
      f \in FocusCases(n), c \in CompanionChoices(n) }

\* the folders of n datasets: every order of the first n folders, so that the
\* ZIP's physical order agrees and disagrees with the order of the names
Placements(n) ==
  { p \in [1..n -> 1..n] : \A i, j \in 1..n : p[i] = p[j] => i = j }

membersOfAll(cases, place) ==
  flat([i \in 1..Len(cases) |-> membersOf(cases[i], DirAt(place[i]))])

Zip(members) == [isZip |-> TRUE, members |-> members]

NotAZip == [isZip |-> FALSE, members |-> <<>>]

\* members that belong to no dataset
StrayDta == BinMember(<<"s">> \o DOT_DTA, bufferOf(1, 4, "LE", 0))

RawHeaderJson == JsonMember(<<"a","/">> \o METADATA_DSC_RAW_JSON, NoJson)

\* a descriptor s.dsc beside a data file whose name only ends like its own
NearName ==
  << BinMember(<<"x", "s">> \o DOT_DTA, SimplePair.bytes),
     TextMember(<<"s">> \o DOT_DSC, SimplePair.text) >>

SpecialInputs ==
  { NotAZip, Zip(<<>>), Zip(<<StrayDta>>), Zip(<<RawHeaderJson>>),
    Zip(<<RawHeaderJson>> \o membersOf(SimplePair, <<>>)), Zip(NearName) }

(***************************************************************************)
(* The state of one parseZipArchive call                                   *)
(***************************************************************************)
VARIABLES
  input,      \* the argument: a ZIP with its members in physical order, or not a ZIP
  pc,         \* "start", "loopA" (380-399), "loopB" (542-638), "done"
  entries,    \* the sorted candidate entries, as indices into input.members
  idx,        \* the position in entries of the next candidate
  files,      \* files: SpectrumFile[]
  spectra,    \* spectra: Map<string, Spectrum1D | Spectrum2D>
  uidCalls,   \* how many ids uid() has handed out
  outcome,    \* what the call did: pending, returned, or threw with a message
  log,        \* per processed candidate: what the loop body did with it
  sampleList, \* sampleList: Sample[] (mockApi.ts 62)
  sampleStore,\* sampleStore: Map<string, StoredSample> (mockApi.ts 61)
  earlier,    \* the result of an earlier parseZipArchive call, kept for comparison
  arg,        \* the arguments of one call of a helper function
  ret,        \* what that call returned
  children,   \* the check states of the report's child boxes (reportState.cjs)
  pending     \* the mockApi calls made so far, each with the await it is suspended at

vars == <<input, pc, entries, idx, files, spectra, uidCalls, outcome, log,
          sampleList, sampleStore, earlier, arg, ret, children, pending>>

\* what a parseZipArchive call leaves alone
restVars == <<sampleList, sampleStore, earlier, arg, ret, children, pending>>

NoValue == [some |-> FALSE]

\* nothing outside the parseZipArchive call is in use
RestIdle ==
  /\ sampleList = <<>>
  /\ sampleStore = <<>>
  /\ earlier = NoValue
  /\ arg = NoValue
  /\ ret = NoValue
  /\ children = <<>>
  /\ pending = <<>>

Pending == [state |-> "pending", message |-> ""]

ReturnedResult == [state |-> "returned", message |-> ""]

ThrewError(message) == [state |-> "threw", message |-> message]

MSG_NOT_ZIP == "JSZip.loadAsync rejected: not a zip file"

MSG_NO_SPECTRA == "Archive parsed, but no spectra were recognized."

MSG_NO_MEMBERS == "No metadata.json files and no .dsc files found in archive."

\* every call yields the same identifier
sameId(k) == 1

\* uid(prefix): a random UUID; the k-th call yields the k-th fresh identifier
uid(k) == k + 1

\* no member is taken for a metadata.json
noMetaEntries(zip) == <<>>

\* zip.file(regex): indices of the matching members, in the ZIP's order
metaEntries(zip) ==
  SelectSeq([i \in 1..Len(zip) |-> i], LAMBDA i : isMetadataJson(zip[i]))

\* no member is taken for a descriptor
noDscEntries(zip) == <<>>

\* zip.file(/\.dsc$/i) (524)
dscEntries(zip) ==
  SelectSeq([i \in 1..Len(zip) |-> i], LAMBDA i : isDsc(zip[i]))

\* the entries are left in the ZIP's order
unsorted(zip, ents) == ents

\* [...entries].sort((a, b) => a.name.localeCompare(b.name))
sortByName(zip, ents) ==
  SortSeq(ents, LAMBDA a, b : localeLess(zip[a].name, zip[b].name))

Init ==
  /\ \/ input \in SpecialInputs
     \/ \E n \in 0..(MaxDatasets - 1) : \E cs \in CaseLists(n), p \in Placements(n + 1) :
          input = Zip(membersOfAll(cs, p))
  /\ pc = "start"
  /\ entries = <<>>
  /\ idx = 1
  /\ files = <<>>
  /\ spectra = <<>>
  /\ uidCalls = 0
  /\ outcome = Pending
  /\ log = <<>>
  /\ RestIdle

\* JSZip.loadAsync(file) rejects (363)
LoadFails ==
  /\ pc = "start"
  /\ ~input.isZip
  /\ pc' = "done"
  /\ outcome' = ThrewError(MSG_NOT_ZIP)
  /\ UNCHANGED <<input, entries, idx, files, spectra, uidCalls, log>>
  /\ UNCHANGED restVars

\* metadata.json members exist: the structured loop is entered (364-378)
SelectStructured ==
  /\ pc = "start"
  /\ input.isZip
  /\ Len(metaEntries(input.members)) # 0
  /\ entries' = sortByName(input.members, metaEntries(input.members))
  /\ pc' = "loopA"
  /\ UNCHANGED <<input, idx, files, spectra, uidCalls, outcome, log>>
  /\ UNCHANGED restVars

\* no metadata.json: parseRawBes3t is called and finds descriptors (368-371, 522-542)
SelectRaw ==
  /\ pc = "start"
  /\ input.isZip
  /\ Len(metaEntries(input.members)) = 0
  /\ Len(dscEntries(input.members)) # 0
  /\ entries' = sortByName(input.members, dscEntries(input.members))
  /\ pc' = "loopB"
  /\ UNCHANGED <<input, idx, files, spectra, uidCalls, outcome, log>>
  /\ UNCHANGED restVars

\* no metadata.json and no .dsc: parseRawBes3t throws at once (525)
RawNoDescriptor ==
  /\ pc = "start"
  /\ input.isZip
  /\ Len(metaEntries(input.members)) = 0
  /\ Len(dscEntries(input.members)) = 0
  /\ pc' = "done"
  /\ outcome' = ThrewError(MSG_NO_MEMBERS)
  /\ UNCHANGED <<input, entries, idx, files, spectra, uidCalls, log>>
  /\ UNCHANGED restVars

\* spectra.set(id, spectrum)
mapSet(map, id, spectrum) ==
  [k \in (DOMAIN map) \cup {id} |-> IF k = id THEN spectrum ELSE map[k]]

\* the candidate is skipped: continue, or the loop's catch
skipEntry(dta) ==
  /\ log' = Append(log, [entry |-> entries[idx], emitted |-> FALSE, id |-> 0,
                         dta |-> dta, numbers |-> <<>>, real |-> <<>>, imag |-> <<>>])
  /\ UNCHANGED <<files, spectra, uidCalls>>

\* files.push(file); spectra.set(id, spectrum) with spectrum.id = id
emitEntry(id, filename, spectrum, dta, numbers, real, imag) ==
  /\ files' = Append(files, [id |-> id, filename |-> filename, type |-> spectrum.type,
                             selected |-> TRUE])
  /\ spectra' = mapSet(spectra, id, [spectrum EXCEPT !.id = id])
  /\ uidCalls' = uidCalls + 1
  /\ log' = Append(log, [entry |-> entries[idx], emitted |-> TRUE, id |-> id,
                         dta |-> dta, numbers |-> numbers, real |-> real, imag |-> imag])

\* the try block of parseZipArchive's loop for valid JSON (384-395)
folderEffect(metadata, parsed) ==
  IF parsed.threw THEN skipEntry(0)
  ELSE emitEntry(uid(uidCalls),
                 IF metadata.dataset_name # <<>> THEN metadata.dataset_name
                 ELSE parsed.spectrum.filename,
                 parsed.spectrum, 0, <<>>, <<>>, <<>>)

\* one iteration of parseZipArchive's loop (380-399)
FolderStep ==
  /\ pc = "loopA"
  /\ idx <= Len(entries)
  /\ IF ~input.members[entries[idx]].json.valid
     THEN skipEntry(0)
     ELSE folderEffect(input.members[entries[idx]].json,
                       parseSpectrumFromFolder(input.members,
                                               toFolder(input.members[entries[idx]].name),
                                               input.members[entries[idx]].json))
  /\ idx' = idx + 1
  /\ UNCHANGED <<input, pc, entries, outcome>>
  /\ UNCHANGED restVars

\* the result is returned even when it holds no file
someFilesAlways(fs) == FALSE

\* files.length === 0 (401), !files.length (640)
noFiles(fs) == Len(fs) = 0

\* after the structured loop (401-405)
FolderDone ==
  /\ pc = "loopA"
  /\ idx > Len(entries)
  /\ pc' = "done"
  /\ outcome' = IF noFiles(files) THEN ThrewError(MSG_NO_SPECTRA) ELSE ReturnedResult
  /\ UNCHANGED <<input, entries, idx, files, spectra, uidCalls, log>>
  /\ UNCHANGED restVars

\* the try block of parseRawBes3t's loop (543-637)
pairEffect(parsed) ==
  IF parsed.threw THEN skipEntry(parsed.dta)
  ELSE emitEntry(uid(uidCalls), parsed.spectrum.filename, parsed.spectrum,
                 parsed.dta, parsed.numbers, parsed.real, parsed.imag)

\* one iteration of parseRawBes3t's loop (542-638)
PairStep ==
  /\ pc = "loopB"
  /\ idx <= Len(entries)
  /\ pairEffect(parseRawEntry(input.members, input.members[entries[idx]]))
  /\ idx' = idx + 1
  /\ UNCHANGED <<input, pc, entries, outcome>>
  /\ UNCHANGED restVars

\* after the raw loop (640-641)
PairDone ==
  /\ pc = "loopB"
  /\ idx > Len(entries)
  /\ pc' = "done"
  /\ outcome' = IF noFiles(files) THEN ThrewError(MSG_NO_SPECTRA) ELSE ReturnedResult
  /\ UNCHANGED <<input, entries, idx, files, spectra, uidCalls, log>>
  /\ UNCHANGED restVars

Next ==
  \/ LoadFails
  \/ SelectStructured
  \/ SelectRaw
  \/ RawNoDescriptor
  \/ FolderStep
  \/ FolderDone
  \/ PairStep
  \/ PairDone

Spec == Init /\ [][Next]_vars

(***************************************************************************)
(* Properties of one parseZipArchive call                                  *)
(***************************************************************************)
emittedCount == Cardinality({ k \in 1..Len(log) : log[k].emitted })

\* the text rows that hold at least one number
numericRows(text) ==
  { i \in 1..Len(text) : \E j \in 1..Len(text[i]) : cellIsFinite(text[i][j]) }

\* a dataset folder's data table: data.csv when that member has text, else the
\* real matrix data_real.csv
dataTable(zip, prefix) ==
  IF ~textIsFalsy(readTextIfExists(zip, prefix \o DATA_CSV))
  THEN readTextIfExists(zip, prefix \o DATA_CSV)
  ELSE readTextIfExists(zip, prefix \o DATA_REAL_CSV)

tableHasData(table) == table.some /\ numericRows(table.v) # {}

\* a structured-export candidate passes validation: its metadata.json parses
\* and its data table is present and not empty
folderPasses(zip, m) ==
  /\ m.json.valid
  /\ tableHasData(dataTable(zip, dirPrefix(toFolder(m.name))))

\* the count a descriptor declares: XPTS * YPTS * (2 if complex, else 1)
declaredCount(meta) ==
  getInt(meta, <<"X","P","T","S">>, 0) * getInt(meta, <<"Y","P","T","S">>, 1)
    * (IF isComplex(meta) THEN 2 ELSE 1)

elementSize(meta) == dtypeFromIrfmt(getStr(meta, <<"I","R","F","M","T">>, <<"F">>)).size

\* the bytes hold exactly the declared number of elements
countsAgree(meta, bytes) == Len(bytes) = declaredCount(meta) * elementSize(meta)

pairChecks(zip, meta, dta) ==
  /\ dta # 0
  /\ getInt(meta, <<"X","P","T","S">>, 0) > 0
  /\ countsAgree(meta, zip[dta].bytes)

\* a raw candidate passes validation: its .dta companion exists, XPTS > 0 and
\* the decoded count is the declared one
pairPasses(zip, m) ==
  pairChecks(zip, parseDscText(m.text), dtaLookup(zip, toFolder(m.name), dscBase(m.name)))

passesValidation(zip, m) ==
  IF isMetadataJson(m) THEN folderPasses(zip, m) ELSE pairPasses(zip, m)

hasMetadataJson(zip) == \E i \in 1..Len(zip) : isMetadataJson(zip[i])

hasDsc(zip) == \E i \in 1..Len(zip) : isDsc(zip[i])

metadataMembers(zip) == { i \in 1..Len(zip) : isMetadataJson(zip[i]) }

dscMembers(zip) == { i \in 1..Len(zip) : isDsc(zip[i]) }

\* the candidates are exactly the given members, each once
candidatesAre(members) ==
  /\ Len(entries) = Cardinality(members)
  /\ { entries[k] : k \in 1..Len(entries) } = members

\* with metadata.json members the structured strategy runs on them, and no
\* step reads a .dta; without, the raw strategy runs on the .dsc members
strategyFor(metas) ==
  IF metas # {}
  THEN /\ pc # "loopB"
       /\ candidatesAre(metas)
       /\ \A k \in 1..Len(log) : log[k].dta = 0
  ELSE /\ pc # "loopA"
       /\ candidatesAre(dscMembers(input.members))

\* C4: strategy selection. The candidates are of one kind, chosen by the
\* archive alone: the metadata.json members exactly if there is one, the .dsc
\* members exactly if there is none; in an archive with a metadata.json member
\* no step reads a .dta member or emits a dataset from a .dsc member; and the
\* candidates processed are the chosen ones, in their order.
C4_StrategySelection ==
  /\ (pc \in {"loopA", "loopB", "done"} /\ input.isZip)
       => strategyFor(metadataMembers(input.members))
  /\ \A k \in 1..Len(log) : log[k].entry = entries[k]

\* C4 witness: every metadata.json dataset failed although the archive holds a
\* valid .dsc/.dta pair, which was not looked at
C4_Witness ==
  /\ pc = "done"
  /\ hasMetadataJson(input.members)
  /\ outcome = ThrewError(MSG_NO_SPECTRA)
  /\ \E i \in 1..Len(input.members) :
       isDsc(input.members[i]) /\ pairPasses(input.members, input.members[i])

is1D(spectrum) == "realData" \in DOMAIN spectrum

is2D(spectrum) == "zData" \in DOMAIN spectrum

\* C5: every 1-D spectrum of the result, from either strategy, has
\* len(xData) = len(realData) = len(imagData).
C5_Lengths1D ==
  \A id \in DOMAIN spectra :
    is1D(spectra[id]) =>
      /\ Len(spectra[id].xData) = Len(spectra[id].realData)
      /\ Len(spectra[id].realData) = Len(spectra[id].imagData)

\* C6: every 2-D spectrum of the result, from either strategy, has
\* len(zData) = len(yData) and every row of zData has len(xData) elements.
C6_Shape2D ==
  \A id \in DOMAIN spectra :
    is2D(spectra[id]) =>
      /\ Len(spectra[id].zData) = Len(spectra[id].yData)
      /\ \A r \in 1..Len(spectra[id].zData) :
           Len(spectra[id].zData[r]) = Len(spectra[id].xData)

\* C7: the ids of the files are pairwise distinct, the keys of the spectra map
\* are the file ids, the spectrum under a file's id carries that id and the
\* file's experiment type, and every file is selected.
C7_IdsAndKeys ==
  /\ \A i, j \in 1..Len(files) : files[i].id = files[j].id => i = j
  /\ DOMAIN spectra = { files[i].id : i \in 1..Len(files) }
  /\ \A i \in 1..Len(files) :
       /\ spectra[files[i].id].id = files[i].id
       /\ spectra[files[i].id].type = files[i].type
       /\ files[i].selected = TRUE

\* C7 witness: a returned result with two files
C7_Witness ==
  /\ pc = "done"
  /\ outcome = ReturnedResult
  /\ Len(files) = 2
  /\ files[1].id # files[2].id

memberName(i) == input.members[i].name

\* how many of the first k processed candidates were emitted
emittedUpTo(k) == Cardinality({ j \in 1..k : log[j].emitted })

logMeta(k) == parseDscText(input.members[log[k].entry].text)

\* the numbers a .dta holds are all the numbers of an emitted dataset: as many
\* as declared, and as many as the bytes make
nothingCut(meta, bytes, numbers) ==
  /\ countsAgree(meta, bytes)
  /\ Len(numbers) = declaredCount(meta)
  /\ Len(numbers) * elementSize(meta) = Len(bytes)

\* C9: a raw dataset is emitted only if the number of elements of its .dta,
\* byte length / element size, is XPTS * YPTS * (2 if complex, else 1); when the
\* counts differ, or the byte length is no multiple of the element size, the
\* dataset is skipped, and an emitted dataset holds every decoded number.
C9_CountMatch ==
  \A k \in 1..Len(log) :
    isDsc(input.members[log[k].entry]) =>
      /\ log[k].emitted =>
           /\ log[k].dta # 0
           /\ nothingCut(logMeta(k), input.members[log[k].dta].bytes, log[k].numbers)
      /\ (log[k].dta # 0 /\ ~countsAgree(logMeta(k), input.members[log[k].dta].bytes))
           => ~log[k].emitted

\* C9 witness: a descriptor with XPTS > 0 was skipped because the bytes of its
\* .dta are no whole number of elements
C9_Witness ==
  \E k \in 1..Len(log) :
    /\ isDsc(input.members[log[k].entry])
    /\ ~log[k].emitted
    /\ log[k].dta # 0
    /\ getInt(logMeta(k), <<"X","P","T","S">>, 0) > 0
    /\ Len(input.members[log[k].dta].bytes) % elementSize(logMeta(k)) # 0
    /\ Len(input.members[log[k].dta].bytes) \div elementSize(logMeta(k))
         = declaredCount(logMeta(k))

\* real[i] = v[2i], imag[i] = v[2i+1] for i in 0..n-1
deinterleaved(v, n, real, imag) ==
  /\ Len(real) = n
  /\ Len(imag) = n
  /\ \A i \in 0..(n - 1) : real[i + 1] = v[2 * i + 1] /\ imag[i + 1] = v[2 * i + 2]

\* real = v and imag is zeros of the length of real
realOnly(v, real, imag) ==
  /\ real = v
  /\ imag = [i \in 1..Len(real) |-> 0]

channelsRight(meta, v, real, imag) ==
  IF isComplex(meta)
  THEN deinterleaved(v, getInt(meta, <<"X","P","T","S">>, 0)
                          * getInt(meta, <<"Y","P","T","S">>, 1), real, imag)
  ELSE realOnly(v, real, imag)

\* C10: for an accepted raw dataset with decoded values v: with the complex
\* flag (IKKF contains CPLX, or an IIFMT key) real[i] = v[2i] and
\* imag[i] = v[2i+1] for every i in 0..XPTS*YPTS-1, otherwise real = v and imag
\* is zeros of the same length; a 1-D spectrum carries these two channels.
C10_Channels ==
  \A k \in 1..Len(log) :
    (isDsc(input.members[log[k].entry]) /\ log[k].emitted) =>
      /\ channelsRight(logMeta(k), log[k].numbers, log[k].real, log[k].imag)
      /\ is1D(spectra[log[k].id]) =>
           /\ spectra[log[k].id].realData = log[k].real
           /\ spectra[log[k].id].imagData = log[k].imag

\* C10 witness: an accepted complex dataset of at least two points whose
\* channels differ
C10_Witness ==
  \E k \in 1..Len(log) :
    /\ isDsc(input.members[log[k].entry])
    /\ log[k].emitted
    /\ isComplex(logMeta(k))
    /\ Len(log[k].real) >= 2
    /\ log[k].real[1] # log[k].real[2]
    /\ log[k].real # log[k].imag

(***************************************************************************)
(* Single calls of the helper functions                                    *)
(***************************************************************************)
\* no parseZipArchive call is under way
ParseIdle ==
  /\ input = NotAZip
  /\ pc = "idle"
  /\ entries = <<>>
  /\ idx = 1
  /\ files = <<>>
  /\ spectra = <<>>
  /\ uidCalls = 0
  /\ outcome = Pending
  /\ log = <<>>

parseVars == <<input, pc, entries, idx, files, spectra, uidCalls, outcome, log>>

\* how many fragments a generated display name is made of, at most
MaxWords == 2

NameFragments ==
  { <<"e","d","f","s">>, <<"r","a","b","i">>, <<"R","a","b","i">>, <<"t","1">>,
    <<"T","1">>, <<"t","2">>, <<"h","y","s","c","o","r","e">>, <<"2","d">>,
    <<"c","w">>, <<"C","W">>, <<"t">>, <<"x","_">> }

\* the display names made of at most n fragments
RECURSIVE NamesUpTo(_)
NamesUpTo(n) ==
  IF n = 0 THEN { <<>> }
  ELSE NamesUpTo(n - 1) \cup { a \o b : a \in NamesUpTo(n - 1), b \in NameFragments }

FamilyHints == { <<>>, <<"C","W">>, <<"c","w">>, <<"P","U","L","S","E","D">>,
                 <<"P","U","L","S","E","D","_","C","W">> }

InferCalls ==
  { [fn |-> "inferSpectrumType", name |-> n, family |-> f, is2D |-> d] :
      n \in NamesUpTo(MaxWords), f \in FamilyHints, d \in BOOLEAN }

Call(c) == [some |-> TRUE, v |-> c]

\* the call under way is one of fn that has not returned
calling(fn) == arg.some /\ ~ret.some /\ arg.v.fn = fn

\* the call of fn has returned
called(fn) == arg.some /\ ret.some /\ arg.v.fn = fn

CallInferSpectrumType ==
  /\ calling("inferSpectrumType")
  /\ ret' = Some(inferSpectrumType(arg.v.name, arg.v.family, arg.v.is2D))
  /\ UNCHANGED <<parseVars, sampleList, sampleStore, earlier, arg, children, pending>>

\* the keywords of inferSpectrumType in their fixed order, with their types
InferKeywords ==
  << [word |-> <<"e","d","f","s">>, type |-> "EDFS"],
     [word |-> <<"r","a","b","i">>, type |-> "Rabi"],
     [word |-> <<"t","1">>, type |-> "T1"],
     [word |-> <<"t","2">>, type |-> "T2"],
     [word |-> <<"h","y","s","c","o","r","e">>, type |-> "HYSCORE"],
     [word |-> <<"2","d">>, type |-> "2D"],
     [word |-> <<"c","w">>, type |-> "CW"] >>

\* keyword k occurs in the name as a case-insensitive substring
keywordOccurs(name, k) == includes(toLowerCase(name), InferKeywords[k].word)

firstKeyword(name) ==
  CHOOSE k \in 1..Len(InferKeywords) :
    keywordOccurs(name, k) /\ \A j \in 1..(k - 1) : ~keywordOccurs(name, j)

typeByHint(family, twoD) ==
  IF twoD THEN "2D"
  ELSE IF includes(family, <<"C","W">>) THEN "CW"
  ELSE IF includes(family, <<"P","U","L","S","E","D">>) THEN "T1"
  ELSE "Unknown"

\* C11: inferSpectrumType returns the type of the first keyword, in the order
\* EDFS, Rabi, T1, T2, HYSCORE, 2d, CW, that occurs in the display name as a
\* case-insensitive substring, wherever the keywords sit in the name; without
\* a keyword a family hint containing 'CW' gives CW and one containing 'PULSED'
\* gives T1, each 2D when is2D is set; otherwise 2D when is2D is set, else
\* Unknown.
C11_InferSpectrumType ==
  called("inferSpectrumType") =>
    ret.v = IF \E k \in 1..Len(InferKeywords) : keywordOccurs(arg.v.name, k)
            THEN InferKeywords[firstKeyword(arg.v.name)].type
            ELSE typeByHint(arg.v.family, arg.v.is2D)

\* C11 witness: a name with 't1' in front of 'Rabi' is Rabi
C11_Witness ==
  /\ called("inferSpectrumType")
  /\ arg.v.name = <<"t","1","R","a","b","i">>
  /\ ret.v = "Rabi"

\* the longest vector handed to a normalization helper
MaxLen == 3

\* the values of such a vector are drawn from -1 .. MaxValue
MaxValue == 2

RECURSIVE VectorsUpTo(_)
VectorsUpTo(n) ==
  IF n = 0 THEN { <<>> }
  ELSE VectorsUpTo(n - 1)
       \cup { Append(v, x) : v \in { w \in VectorsUpTo(n - 1) : Len(w) = n - 1 },
                             x \in (-1)..MaxValue }

AxisMeta(name, unit) == [defined |-> TRUE, axis_id |-> <<"X">>, name |-> name,
                         unit |-> unit, points |-> 0]

AxisMetas ==
  { AxisMeta(<<>>, u) : u \in { <<>>, <<"s">>, <<"m","s">>, <<"u","s">>, <<"µ","s">>,
                                <<"n","s">>, <<"N","S">>, <<"G">>, <<"m","i","n">> } }
  \cup { AxisMeta(n, <<"G">>) : n \in { <<"T","i","m","e">>, <<"t","a","u">>,
                                        <<"D","e","l","a","y","T","A","U">>,
                                        <<"F","i","e","l","d">> } }
  \cup { NoAxis }

NormalizeAxisCalls ==
  { [fn |-> "normalizeAxisStart", axis |-> a, axisMeta |-> m] :
      a \in { Null } \cup { Some(v) : v \in VectorsUpTo(MaxLen) }, m \in AxisMetas }

CallNormalizeAxisStart ==
  /\ calling("normalizeAxisStart")
  /\ ret' = Some(normalizeAxisStart(arg.v.axis, arg.v.axisMeta))
  /\ UNCHANGED <<parseVars, sampleList, sampleStore, earlier, arg, children, pending>>

TimeUnits == { <<"s">>, <<"m","s">>, <<"u","s">>, <<"µ","s">>, <<"n","s">> }

\* time-like axis metadata: a time unit, or a name containing 'time' or 'tau'
timeLike(axisMeta) ==
  \/ toLowerCase(axisMeta.unit) \in TimeUnits
  \/ includes(toLowerCase(axisMeta.name), <<"t","i","m","e">>)
  \/ includes(toLowerCase(axisMeta.name), <<"t","a","u">>)

shiftedByFirst(v, r) ==
  /\ Len(r) = Len(v)
  /\ r[1] = 0
  /\ \A i \in 1..Len(v) : r[i] = v[i] - v[1]

\* C12: for a non-empty vector v and time-like axis metadata,
\* normalizeAxisStart(v)[0] = 0, normalizeAxisStart(v)[i] = v[i] - v[0] for
\* every i, and normalizing the result again changes nothing; for metadata
\* that is not time-like the vector is returned unchanged.
C12_NormalizeAxisStart ==
  (called("normalizeAxisStart") /\ arg.v.axis.some /\ Len(arg.v.axis.v) > 0) =>
    IF timeLike(arg.v.axisMeta)
    THEN /\ ret.v.some
         /\ shiftedByFirst(arg.v.axis.v, ret.v.v)
         /\ normalizeAxisStart(ret.v, arg.v.axisMeta) = ret.v
    ELSE ret.v = arg.v.axis

\* C12 witness: a vector that does not start at its smallest value, on an axis
\* in microseconds
C12_Witness ==
  /\ called("normalizeAxisStart")
  /\ arg.v.axisMeta.unit = <<"µ","s">>
  /\ arg.v.axis = Some(<<2, -1, 1>>)
  /\ ret.v = Some(<<0, -3, -1>>)

XLabels == { <<"X">>, <<"T","i","m","e"," ","(","n","s",")">>, <<"t","i","m","e">>,
             <<"F","i","e","l","d"," ","(","G",")">> }

SpectrumTypes == { "CW", "EDFS", "T1", "T2", "Rabi", "HYSCORE", "2D", "Unknown" }

NormalizeXCalls ==
  { [fn |-> "normalizeXForTimeType", x |-> v, type |-> t, xLabel |-> l] :
      v \in VectorsUpTo(MaxLen), t \in SpectrumTypes, l \in XLabels }

CallNormalizeXForTimeType ==
  /\ calling("normalizeXForTimeType")
  /\ ret' = Some(normalizeXForTimeType(arg.v.x, arg.v.type, arg.v.xLabel))
  /\ UNCHANGED <<parseVars, sampleList, sampleStore, earlier, arg, children, pending>>

\* m is the smallest element of the non-empty vector x
isMinOf(x, m) ==
  /\ \E i \in 1..Len(x) : x[i] = m
  /\ \A i \in 1..Len(x) : m <= x[i]

shiftedByMin(x, r) ==
  /\ Len(r) = Len(x)
  /\ \A i \in 1..Len(x) : \E m \in (-1)..MaxValue : isMinOf(x, m) /\ r[i] = x[i] - m
  /\ Len(x) > 0 => isMinOf(r, 0)

\* C13: when type is one of T1, T2, Rabi, EDFS or the label contains 'time'
\* (case-insensitive), normalizeXForTimeType returns a vector of the length of
\* x with result[i] = x[i] - min(x), so its minimum is 0; otherwise it returns
\* x.
C13_NormalizeXForTimeType ==
  called("normalizeXForTimeType") =>
    IF \/ arg.v.type \in {"T1", "T2", "Rabi", "EDFS"}
       \/ includes(toLowerCase(arg.v.xLabel), <<"t","i","m","e">>)
    THEN shiftedByMin(arg.v.x, ret.v)
    ELSE ret.v = arg.v.x

\* C13 witness: a CW vector with a time label whose smallest value is not its
\* first
C13_Witness ==
  /\ called("normalizeXForTimeType")
  /\ arg.v.type = "CW"
  /\ arg.v.xLabel = <<"T","i","m","e"," ","(","n","s",")">>
  /\ arg.v.x = <<2, -1, 1>>
  /\ ret.v = <<3, 0, 2>>

\* the X-axis metadata of the dataset a processed candidate stands for
xAxisMetaOf(m) ==
  IF isMetadataJson(m) THEN findAxis(m.json.axes, <<"X">>, 1)
  ELSE axisGuess(parseDscText(m.text), "X", 0)

startsAtZero(spectrum) == Len(spectrum.xData) > 0 => spectrum.xData[1] = 0

\* C14: in every 1-D spectrum of the result, from either strategy, whose
\* X-axis metadata is time-like and whose xData is not empty, xData[0] is 0.
C14_TimeAxisStartsAtZero ==
  \A k \in 1..Len(log) :
    (log[k].emitted /\ is1D(spectra[log[k].id])
       /\ timeLike(xAxisMetaOf(input.members[log[k].entry])))
      => startsAtZero(spectra[log[k].id])


\* ---------------------------------------------------------------------------
\* Calls of parseParamsFromName
\* ---------------------------------------------------------------------------

\* the digit strings of a temperature token and its two decimal separators
WholeParts == { <<"3">>, <<"1","2">> }

FractionParts == { <<"6">>, <<"0","5">> }

Separators == { <<"p">>, <<".">> }

\* <a><sep><b>K, in either case of the unit
TemperatureToken(a, sep, b, unit) == a \o sep \o b \o <<unit>>

OtherTokens == << <<"S","a","m","p","l","e">>, <<"T","1">> >>

Extensions == { <<>>, <<".","z","i","p">>, <<".","D","S","C">> }

\* the tokens of a name: the temperature token at position at among the others
tokensWith(tok, at) ==
  SubSeq(OtherTokens, 1, at - 1) \o <<tok>> \o SubSeq(OtherTokens, at, Len(OtherTokens))

RECURSIVE joinUnderscore(_)
joinUnderscore(tokens) ==
  IF tokens = <<>> THEN <<>>
  ELSE IF Len(tokens) = 1 THEN tokens[1]
  ELSE tokens[1] \o <<"_">> \o joinUnderscore(Tail(tokens))

ParseParamsCalls ==
  { [fn |-> "parseParamsFromName",
     rawName |-> joinUnderscore(tokensWith(TemperatureToken(a, s, b, u), at)) \o e,
     whole |-> a, fraction |-> b] :
      a \in WholeParts, s \in Separators, b \in FractionParts, u \in {"K", "k"},
      at \in 1..(Len(OtherTokens) + 1), e \in Extensions }

CallParseParamsFromName ==
  /\ calling("parseParamsFromName")
  /\ ret' = Some(parseParamsFromName(arg.v.rawName))
  /\ UNCHANGED <<parseVars, sampleList, sampleStore, earlier, arg, children, pending>>

\* C15: for a name holding the token <a>p<b>K or <a>.<b>K at any token
\* position, with or without a file extension, temperatureK is the decimal
\* number a.b.
C15_DecimalSeparators ==
  called("parseParamsFromName") =>
    ret.v.temperatureK
      = Some(Decimal(natOfDigits(arg.v.whole \o arg.v.fraction), Len(arg.v.fraction)))


\* ---------------------------------------------------------------------------
\* parseDscText
\* ---------------------------------------------------------------------------

MaxLines == 3

\* one descriptor line with what it stands for: kind "pair" carries the key
\* in upper case and the value; the other kinds carry no entry
LineCase(kind, key, value, text) == [kind |-> kind, key |-> key, value |-> value, text |-> text]

PairLines ==
  UNION { { LineCase("pair", k, v, k \o <<"=">> \o v),
            LineCase("pair", k, v, <<" ">> \o toLowerCase(k) \o <<" ", "=", " ">> \o v \o <<" ">>),
            LineCase("pair", k, v, toLowerCase(k) \o <<"\t">> \o v) } :
          k \in { <<"A">>, <<"B">> }, v \in { <<"1">>, <<"2">> } }

SkippedLines ==
  { LineCase("blank", <<>>, <<>>, <<" ">>),
    LineCase("comment", <<>>, <<>>, <<"*", "A", "=", "2">>),
    LineCase("comment", <<>>, <<>>, <<" ", "*", " ", "b">>),
    LineCase("single", <<>>, <<>>, <<"A">>),
    LineCase("emptykey", <<>>, <<>>, <<" ", "=", "2">>) }

LineCases == PairLines \cup SkippedLines

RECURSIVE LineCaseLists(_)
LineCaseLists(n) ==
  IF n = 0 THEN { <<>> }
  ELSE LineCaseLists(n - 1)
         \cup { Append(cs, c) : cs \in { l \in LineCaseLists(n - 1) : Len(l) = n - 1 },
                                c \in LineCases }

ParseDscCalls ==
  { [fn |-> "parseDscText", text |-> [i \in 1..Len(cs) |-> cs[i].text], lines |-> cs] :
      cs \in LineCaseLists(MaxLines) }

CallParseDscText ==
  /\ calling("parseDscText")
  /\ ret' = Some(parseDscText(arg.v.text))
  /\ UNCHANGED <<parseVars, sampleList, sampleStore, earlier, arg, children, pending>>

\* the lines of a descriptor that carry the key
linesWithKey(cases, key) ==
  { i \in 1..Len(cases) : cases[i].kind = "pair" /\ cases[i].key = key }

lastLineWithKey(cases, key) ==
  CHOOSE i \in linesWithKey(cases, key) : \A j \in linesWithKey(cases, key) : j <= i

\* C20: parseDscText stores exactly the upper-cased keys of the lines that
\* carry a key/value pair, each with the value of its last occurrence; blank
\* lines, lines starting with '*' and lines without a pair (a single token,
\* an empty key before '=') add nothing and do not disturb the lines around
\* them.
C20_ParseDscText ==
  called("parseDscText") =>
    /\ DOMAIN ret.v = { arg.v.lines[i].key : i \in { j \in 1..Len(arg.v.lines) :
                                                       arg.v.lines[j].kind = "pair" } }
    /\ \A key \in DOMAIN ret.v :
         ret.v[key] = arg.v.lines[lastLineWithKey(arg.v.lines, key)].value

\* a=1, then a line with the single token A, then a<TAB>2: A is stored as 2
C20_Witness ==
  /\ called("parseDscText")
  /\ arg.v.text = << <<"A", "=", "1">>, <<"A">>, <<"a", "\t", "2">> >>
  /\ DOMAIN ret.v = { <<"A">> }
  /\ ret.v[<<"A">>] = <<"2">>


\* ---------------------------------------------------------------------------
\* The report's master check box (tests/unit/reportState.cjs)
\* ---------------------------------------------------------------------------

MaxChildren == 4

\* children.every(Boolean)
everyOn(list) == \A i \in 1..Len(list) : list[i]

\* children.every(v => !v)
everyOff(list) == \A i \in 1..Len(list) : ~list[i]

computeMasterState(list) ==
  [masterChecked |-> Len(list) > 0 /\ everyOn(list),
   masterIndeterminate |-> ~(Len(list) > 0 /\ everyOn(list))
                             /\ ~(Len(list) > 0 /\ everyOff(list))]

\* the three returns of toggleMaster: target is true unless the master is checked
toggleMaster(list) ==
  IF computeMasterState(list).masterIndeterminate /\ ~computeMasterState(list).masterChecked
  THEN [i \in 1..Len(list) |-> TRUE]
  ELSE IF computeMasterState(list).masterIndeterminate
  THEN [i \in 1..Len(list) |-> FALSE]
  ELSE [i \in 1..Len(list) |-> ~computeMasterState(list).masterChecked]

\* next[idx] = !next[idx], idx counted from 0
toggleChild(list, i) == [list EXCEPT ![i + 1] = ~list[i + 1]]

RECURSIVE ChildLists(_)
ChildLists(n) ==
  IF n = 0 THEN { <<>> }
  ELSE ChildLists(n - 1)
         \cup { Append(l, b) : l \in { c \in ChildLists(n - 1) : Len(c) = n - 1 },
                               b \in BOOLEAN }

\* the report opens on any list of child check states; no click has happened
InitReport ==
  /\ ParseIdle
  /\ sampleList = <<>> /\ sampleStore = <<>> /\ earlier = NoValue /\ pending = <<>>
  /\ arg = NoValue /\ ret = NoValue
  /\ children \in ChildLists(MaxChildren)

\* a click on the master box; arg keeps the click and the list it met
ToggleMaster ==
  /\ children' = toggleMaster(children)
  /\ arg' = Call([fn |-> "toggleMaster", children |-> children, idx |-> 0])
  /\ UNCHANGED <<parseVars, sampleList, sampleStore, earlier, ret, pending>>

\* a click on the box of an existing child
ToggleChild ==
  \E i \in 0..(Len(children) - 1) :
    /\ children' = toggleChild(children, i)
    /\ arg' = Call([fn |-> "toggleChild", children |-> children, idx |-> i])
    /\ UNCHANGED <<parseVars, sampleList, sampleStore, earlier, ret, pending>>

NextReport == ToggleMaster \/ ToggleChild

SpecReport == InitReport /\ [][NextReport]_vars

someOn(list) == \E i \in 1..Len(list) : list[i]

someOff(list) == \E i \in 1..Len(list) : ~list[i]

\* C18: masterChecked holds exactly when there is a child and every child is
\* checked; masterIndeterminate holds exactly when the list holds both a
\* checked and an unchecked child; the two are never true together.
C18_MasterState ==
  /\ computeMasterState(children).masterChecked
       = (Len(children) > 0 /\ ~someOff(children))
  /\ computeMasterState(children).masterIndeterminate
       = (someOn(children) /\ someOff(children))
  /\ ~(computeMasterState(children).masterChecked
         /\ computeMasterState(children).masterIndeterminate)

\* the click that led to the present list
clicked(fn) == arg.some /\ arg.v.fn = fn

\* C19: a toggleMaster click turns every child off when all were on and every
\* child on otherwise, keeping the number of children, and leaves the master
\* not indeterminate; a toggleChild click changes only the addressed child.
C19_Toggles ==
  /\ clicked("toggleMaster") =>
       /\ Len(children) = Len(arg.v.children)
       /\ (~someOff(arg.v.children)) => ~someOn(children)
       /\ someOff(arg.v.children) => ~someOff(children)
       /\ ~computeMasterState(children).masterIndeterminate
  /\ clicked("toggleChild") =>
       /\ Len(children) = Len(arg.v.children)
       /\ \A i \in 1..Len(children) :
            children[i] = IF i = arg.v.idx + 1 THEN ~arg.v.children[i]
                          ELSE arg.v.children[i]


\* ---------------------------------------------------------------------------
\* mockApi: the sample store around parseZipArchive (mockApi.ts 644-732)
\* ---------------------------------------------------------------------------

MaxUids == 3

\* the archives uploaded: not a ZIP, an empty ZIP, and one or two simple
\* datasets of which some are broken
UploadArchives ==
  { NotAZip, Zip(<<>>) }
  \cup { Zip(membersOf(CompanionCases[i], <<>>)) : i \in 1..Len(CompanionCases) }
  \cup { Zip(membersOf(CompanionCases[i], <<"a">>) \o membersOf(CompanionCases[i + 1], <<"b">>)) :
           i \in { 1, 3 } }
  \cup { Zip(membersOf(SimpleFolder, <<"b">>) \o membersOf(SimpleFolder, <<"a">>)) }

UploadNames == { <<"a", ".", "z", "i", "p">>, <<"B", ".", "Z", "I", "P">> }

DOT_ZIP == <<".", "z", "i", "p">>

\* file.name.replace(/\.zip$/i, '')
stripZip(name) ==
  IF endsWith(toLowerCase(name), DOT_ZIP) THEN SubSeq(name, 1, Len(name) - Len(DOT_ZIP))
  ELSE name

\* the Sample record built by uploadSample; uploadDate is the clock's reading
newSample(id, name, parsedFiles) ==
  [id |-> id, name |-> stripZip(name), uploadDate |-> "now", fileCount |-> Len(parsedFiles)]

\* parsed.files.filter(f => f.selected).map(f => f.id), a Set in insertion order
selectedIds(parsedFiles) ==
  [i \in 1..Len(SelectSeq(parsedFiles, LAMBDA f : f.selected)) |->
     SelectSeq(parsedFiles, LAMBDA f : f.selected)[i].id]

newStored(sample, parsedFiles, parsedSpectra) ==
  [sample |-> sample, files |-> parsedFiles, spectra |-> parsedSpectra,
   processed |-> selectedIds(parsedFiles)]

\* the list is left as it is
unfiltered(list, sampleId) == list

\* sampleList.filter(s => s.id !== sampleId)
withoutSample(list, sampleId) == SelectSeq(list, LAMBDA s : s.id # sampleId)

\* sampleStore.delete(sampleId)
mapDelete(map, id) == [k \in (DOMAIN map) \ {id} |-> map[k]]

getSamples(list) == list

getArchiveFiles(store, sampleId) ==
  IF sampleId \in DOMAIN store THEN store[sampleId].files ELSE <<>>

\* the spectra of the processed ids that the sample's map holds, in Set order
getProcessedSpectra(store, sampleId) ==
  IF sampleId \notin DOMAIN store THEN <<>>
  ELSE [i \in 1..Len(SelectSeq(store[sampleId].processed,
                               LAMBDA id : id \in DOMAIN store[sampleId].spectra)) |->
          store[sampleId].spectra[SelectSeq(store[sampleId].processed,
                                  LAMBDA id : id \in DOMAIN store[sampleId].spectra)[i]]]

\* every identifier uid can have handed out: an upload starts below MaxUids
\* and takes one for each of at most two files and one for the sample
Uids == 1..(MaxUids + 3)

\* every call resolves although parseZipArchive threw
resolvedAlways(result) == result.state # "pending"

\* await parseZipArchive(file) resolves: uploadSample goes on past line 663
resolved(result) == result.state = "returned"

\* the store is empty and no call is under way
InitUpload ==
  /\ ParseIdle
  /\ sampleList = <<>> /\ sampleStore = <<>>
  /\ earlier = NoValue /\ arg = NoValue /\ ret = NoValue
  /\ children = <<>> /\ pending = <<>>

\* uploadSample(file) is called and parseZipArchive starts (660-663); earlier
\* keeps the store as the call found it
StartUpload ==
  /\ pc = "idle"
  /\ uidCalls < MaxUids
  /\ \E archive \in UploadArchives, name \in UploadNames :
       /\ input' = archive
       /\ arg' = Call([fn |-> "uploadSample", name |-> name])
  /\ pc' = "start"
  /\ entries' = <<>> /\ idx' = 1 /\ files' = <<>> /\ spectra' = <<>> /\ log' = <<>>
  /\ outcome' = Pending
  /\ ret' = NoValue
  /\ earlier' = Some([sampleList |-> sampleList, sampleStore |-> sampleStore])
  /\ UNCHANGED <<uidCalls, sampleList, sampleStore, children, pending>>

\* parseZipArchive returned: the sample is built and stored (664-680)
StoreSample ==
  /\ pc = "done"
  /\ calling("uploadSample")
  /\ resolved(outcome)
  /\ sampleList' = Append(sampleList, newSample(uid(uidCalls), arg.v.name, files))
  /\ sampleStore' = mapSet(sampleStore, uid(uidCalls),
                           newStored(newSample(uid(uidCalls), arg.v.name, files),
                                     files, spectra))
  /\ uidCalls' = uidCalls + 1
  /\ ret' = Some(newSample(uid(uidCalls), arg.v.name, files))
  /\ pc' = "idle"
  /\ UNCHANGED <<input, entries, idx, files, spectra, outcome, log, earlier, arg, children, pending>>

\* parseZipArchive threw: the rejection passes through uploadSample (663)
FailUpload ==
  /\ pc = "done"
  /\ calling("uploadSample")
  /\ outcome.state = "threw"
  /\ ret' = Some(outcome)
  /\ pc' = "idle"
  /\ UNCHANGED <<input, entries, idx, files, spectra, uidCalls, outcome, log,
                 sampleList, sampleStore, earlier, arg, children, pending>>

\* deleteSample(sampleId) between two uploads (690-694)
DeleteSample ==
  /\ pc = "idle"
  /\ \E sampleId \in Uids :
       /\ sampleId \in DOMAIN sampleStore
       /\ sampleList' = withoutSample(sampleList, sampleId)
       /\ sampleStore' = mapDelete(sampleStore, sampleId)
       /\ arg' = Call([fn |-> "deleteSample", sampleId |-> sampleId])
  /\ ret' = Some([state |-> "returned", message |-> ""])
  /\ UNCHANGED <<parseVars, earlier, children, pending>>

NextUpload ==
  \/ StartUpload
  \/ LoadFails
  \/ SelectStructured
  \/ SelectRaw
  \/ RawNoDescriptor
  \/ FolderStep
  \/ FolderDone
  \/ PairStep
  \/ PairDone
  \/ StoreSample
  \/ FailUpload
  \/ DeleteSample

SpecUpload == InitUpload /\ [][NextUpload]_vars

\* the identifiers the parse under way has given to its files so far
newFileIds == { files[i].id : i \in 1..Len(files) }

\* the three readers answer as they did when the upload was called
showsWhatEarlierDid ==
  /\ getSamples(sampleList) = getSamples(earlier.v.sampleList)
  /\ \A sampleId \in Uids :
       /\ getArchiveFiles(sampleStore, sampleId)
            = getArchiveFiles(earlier.v.sampleStore, sampleId)
       /\ getProcessedSpectra(sampleStore, sampleId)
            = getProcessedSpectra(earlier.v.sampleStore, sampleId)

\* no reader shows a file or spectrum of the parse under way
showsNoNewFile ==
  \A sampleId \in Uids :
    /\ \A i \in 1..Len(getArchiveFiles(sampleStore, sampleId)) :
         getArchiveFiles(sampleStore, sampleId)[i].id \notin newFileIds
    /\ \A i \in 1..Len(getProcessedSpectra(sampleStore, sampleId)) :
         getProcessedSpectra(sampleStore, sampleId)[i].id \notin newFileIds

OnePoint == <<DscLine(<<"X","P","T","S">>, <<"1">>)>>

\* a descriptor in the root whose data file lies in no folder of its own:
\* a/s.dta holds the one declared element, b/s.dta holds two
LooseDescriptor ==
  << BinMember(<<"a", "/", "s">> \o DOT_DTA, PairCase(OnePoint, 1, 0).bytes),
     BinMember(<<"b", "/", "s">> \o DOT_DTA, PairCase(OnePoint, 2, 0).bytes),
     TextMember(<<"s">> \o DOT_DSC, OnePoint) >>

\* the archives parsed twice
TwiceArchives ==
  { NotAZip, Zip(<<StrayDta>>), Zip(LooseDescriptor),
    Zip(membersOf(SimpleFolder, <<"a">>) \o membersOf(SimpleFolder, <<"b">>)),
    Zip(membersOf(SimplePair, <<"a">>) \o membersOf(BrokenPair, <<"b">>)),
    Zip(membersOf(SimplePair, <<>>) \o membersOf(SimpleFolder, <<"a">>)) }

\* the same members in another physical order
reordered(archive, place) ==
  [archive EXCEPT !.members = [i \in 1..Len(archive.members) |-> archive.members[place[i]]]]

\* what a caller reads of a spectrum apart from its identifier
withoutId(spectrum) == [spectrum EXCEPT !.id = 0]

\* the result of the call, position by position: filename, experiment type
\* and the spectrum with its labels and numeric data
resultView(result, fileList, spectrumMap) ==
  [state |-> result.state,
   files |-> [i \in 1..Len(fileList) |->
                [filename |-> fileList[i].filename, type |-> fileList[i].type,
                 spectrum |-> withoutId(spectrumMap[fileList[i].id])]]]

InitTwice ==
  /\ input \in TwiceArchives
  /\ pc = "start"
  /\ entries = <<>> /\ idx = 1 /\ files = <<>> /\ spectra = <<>>
  /\ uidCalls = 0
  /\ outcome = Pending
  /\ log = <<>>
  /\ RestIdle

\* the first call is over; parseZipArchive is called again on the same
\* members in some physical order (361-363), earlier keeping the first result
ParseAgain ==
  /\ pc = "done"
  /\ ~earlier.some
  /\ earlier' = Some(resultView(outcome, files, spectra))
  /\ \E place \in Placements(Len(input.members)) : input' = reordered(input, place)
  /\ pc' = "start"
  /\ entries' = <<>> /\ idx' = 1 /\ files' = <<>> /\ spectra' = <<>> /\ log' = <<>>
  /\ outcome' = Pending
  /\ UNCHANGED <<uidCalls, sampleList, sampleStore, arg, ret, children, pending>>

NextTwice ==
  \/ LoadFails
  \/ SelectStructured
  \/ SelectRaw
  \/ RawNoDescriptor
  \/ FolderStep
  \/ FolderDone
  \/ PairStep
  \/ PairDone
  \/ ParseAgain

SpecTwice == InitTwice /\ [][NextTwice]_vars

\* C17: a second parse of the same archive, after an earlier one and whatever
\* the physical order of the members, yields a file list of the same length
\* and order with the same filename, type, labels and numeric data at every
\* position.
C17_Deterministic ==
  (pc = "done" /\ earlier.some) => resultView(outcome, files, spectra) = earlier.v


\* ---------------------------------------------------------------------------
\* One descriptor line without '='
\* ---------------------------------------------------------------------------

\* the runs of white space between a key and its value
WhitespaceRuns == { <<" ">>, <<"\t">>, <<" ", " ">> }

\* values of one, two and three words
LineValues ==
  { <<"m", "y">>, <<"m", "y", " ", "T", "1">>, <<"m", "y", "\t", "T", "1">>,
    <<"a", " ", "b", " ", "c">> }

\* key, a run of white space, value; the line is padded or not
WhitespaceLineCalls ==
  { [fn |-> "parseDscLine", line |-> pad \o k \o run \o v \o pad,
     key |-> toUpperCase(k), value |-> v] :
      k \in { <<"T", "I", "T", "L">>, <<"t", "i", "t", "l">> },
      run \in WhitespaceRuns, v \in LineValues, pad \in { <<>>, <<" ">> } }

CallParseDscLine ==
  /\ calling("parseDscLine")
  /\ ret' = Some(parseDscLine(<<>>, arg.v.line))
  /\ UNCHANGED <<parseVars, sampleList, sampleStore, earlier, arg, children, pending>>

\* C21: a line without '=' is split at its first run of white space into the
\* key and the whole remainder of the line, so a value of several words is
\* stored complete.
C21_WholeRemainder ==
  called("parseDscLine") =>
    /\ DOMAIN ret.v = { arg.v.key }
    /\ ret.v[arg.v.key] = arg.v.value

\* ---------------------------------------------------------------------------
\* The shape of what a dataset folder yields
\* ---------------------------------------------------------------------------

\* the folder prefix of the k-th processed candidate
logPrefix(k) == dirPrefix(toFolder(input.members[log[k].entry].name))

\* data.csv of the k-th candidate's folder is there with text
hasDataCsv(k) == ~textIsFalsy(readTextIfExists(input.members, logPrefix(k) \o DATA_CSV))

\* the rows of data_real.csv of the k-th candidate's folder
realMatrixOf(k) ==
  IF textIsFalsy(readTextIfExists(input.members, logPrefix(k) \o DATA_REAL_CSV)) THEN <<>>
  ELSE parseCsv(readTextIfExists(input.members, logPrefix(k) \o DATA_REAL_CSV).v)

\* the point count the metadata declares for the Y axis
declaredYPoints(k) == findAxis(input.members[log[k].entry].json.axes, <<"Y">>, 2).points

\* the shape heuristic: a declared Y count above 1, or several rows of more
\* than two columns
gridShaped(yPoints, matrix) == yPoints > 1 \/ (Len(matrix) > 1 /\ Len(matrix[1]) > 2)

\* C22: a folder without data.csv and with a non-empty data_real.csv yields a
\* 2-D spectrum exactly when the shape heuristic holds, and otherwise a 1-D
\* spectrum of the first two columns; a folder with data.csv yields a 1-D
\* spectrum.
C22_ShapeHeuristic ==
  \A k \in 1..Len(log) :
    (log[k].emitted /\ isMetadataJson(input.members[log[k].entry])) =>
      /\ hasDataCsv(k) => is1D(spectra[log[k].id])
      /\ (~hasDataCsv(k) /\ Len(realMatrixOf(k)) > 0) =>
           /\ is2D(spectra[log[k].id]) = gridShaped(declaredYPoints(k), realMatrixOf(k))
           /\ is1D(spectra[log[k].id]) =>
                /\ spectra[log[k].id].realData
                     = [i \in 1..Len(realMatrixOf(k)) |->
                          IF Len(realMatrixOf(k)[i]) = 1 THEN realMatrixOf(k)[i][1]
                          ELSE realMatrixOf(k)[i][2]]

\* ---------------------------------------------------------------------------
\* The data file paired with a descriptor
\* ---------------------------------------------------------------------------

\* member i is a .dta whose basename is the descriptor's, case aside
sameBasename(i, base) ==
  /\ isDta(input.members[i])
  /\ toLowerCase(lastSegment(input.members[i].name)) = toLowerCase(base) \o DOT_DTA

\* C23: the .dta decoded for a descriptor has exactly the descriptor's
\* basename, one of the descriptor's folder when there is one, and a
\* descriptor without such a member in the archive is skipped.
C23_ExactBasename ==
  \A k \in 1..Len(log) :
    isDsc(input.members[log[k].entry]) =>
      /\ log[k].dta # 0 => sameBasename(log[k].dta, dscBase(memberName(log[k].entry)))
      /\ (log[k].dta # 0
            /\ \E i \in 1..Len(input.members) :
                 /\ sameBasename(i, dscBase(memberName(log[k].entry)))
                 /\ toFolder(memberName(i)) = toFolder(memberName(log[k].entry)))
           => toFolder(memberName(log[k].dta)) = toFolder(memberName(log[k].entry))
      /\ (~\E i \in 1..Len(input.members) :
             sameBasename(i, dscBase(memberName(log[k].entry))))
           => ~log[k].emitted

\* ---------------------------------------------------------------------------
\* The name the parameters are taken from
\* ---------------------------------------------------------------------------

\* C24: the parsedParams of every spectrum of the result are the parameters
\* extracted from that spectrum's own filename field.
C24_ParamsOfDisplayName ==
  \A id \in DOMAIN spectra :
    spectra[id].parsedParams = parseParamsFromName(spectra[id].filename)

\* ---------------------------------------------------------------------------
\* axisVector in floating point
\* ---------------------------------------------------------------------------

\* JavaScript numbers are binary floating point with a 53-bit significand,
\* every operation rounding its exact result to the nearest number, ties to
\* the even significand. The model keeps the format and the rounding with a
\* significand of Precision bits, for numbers that are not negative.
Precision == 3

MaxAxisPoints == 4

RECURSIVE Pow2(_)
Pow2(n) == IF n = 0 THEN 1 ELSE 2 * Pow2(n - 1)

\* the number m * 2^e
Float(m, e) == [m |-> m, e |-> e]

FloatZero == Float(0, 0)

\* the exact value of a number as a fraction num / den
numOf(x) == IF x.e >= 0 THEN x.m * Pow2(x.e) ELSE x.m

denOf(x) == IF x.e >= 0 THEN 1 ELSE Pow2(0 - x.e)

\* the exponents the numbers of the model need
Exponents == (0 - 2 * Precision)..(2 * Precision)

\* a / b scaled by 2^(-e), as a fraction
scaledNum(a, e) == IF e >= 0 THEN a ELSE a * Pow2(0 - e)

scaledDen(b, e) == IF e >= 0 THEN b * Pow2(e) ELSE b

\* the exponent that brings a / b > 0 into [2^(Precision-1), 2^Precision)
exponentOf(a, b) ==
  CHOOSE e \in Exponents :
    /\ Pow2(Precision - 1) * scaledDen(b, e) <= scaledNum(a, e)
    /\ scaledNum(a, e) < Pow2(Precision) * scaledDen(b, e)

\* n / d to the nearest integer, ties to even
nearestEven(n, d) ==
  IF 2 * (n % d) > d \/ (2 * (n % d) = d /\ (n \div d) % 2 = 1)
  THEN (n \div d) + 1
  ELSE n \div d

\* a significand that rounding carried up to 2^Precision
normalized(m, e) == IF m = Pow2(Precision) THEN Float(Pow2(Precision - 1), e + 1) ELSE Float(m, e)

\* the fraction a / b rounded to a number, its exponent given
roundedAt(a, b, e) == normalized(nearestEven(scaledNum(a, e), scaledDen(b, e)), e)

\* the fraction a / b >= 0 rounded to a number
rounded(a, b) == IF a = 0 THEN FloatZero ELSE roundedAt(a, b, exponentOf(a, b))

\* the integer k as a number
toFloat(k) == rounded(k, 1)

floatAdd(x, y) == rounded(numOf(x) * denOf(y) + numOf(y) * denOf(x), denOf(x) * denOf(y))

\* x - y for x >= y
floatSub(x, y) == rounded(numOf(x) * denOf(y) - numOf(y) * denOf(x), denOf(x) * denOf(y))

floatMul(x, y) == rounded(numOf(x) * numOf(y), denOf(x) * denOf(y))

\* x / y for y > 0
floatDiv(x, y) == rounded(numOf(x) * denOf(y), denOf(x) * numOf(y))

\* a field of an AxisGuess: a number, or undefined
Finite(x) == [finite |-> TRUE, x |-> x]

Undefined == [finite |-> FALSE, x |-> FloatZero]

\* axisVector(ax) on floating-point numbers
axisVectorFloat(ax) ==
  IF ax.min.finite /\ ax.width.finite
  THEN [i \in 1..ax.points |->
          floatAdd(ax.min.x,
                   floatDiv(floatMul(ax.width.x, toFloat(i - 1)),
                            toFloat(IF ax.points - 1 # 0 THEN ax.points - 1 ELSE 1)))]
  ELSE IF ax.start.finite /\ ax.stop.finite
  THEN [i \in 1..ax.points |->
          floatAdd(ax.start.x,
                   floatMul(IF ax.points = 1 THEN FloatZero
                            ELSE floatDiv(toFloat(i - 1), toFloat(ax.points - 1)),
                            floatSub(ax.stop.x, ax.start.x)))]
  ELSE [i \in 1..ax.points |-> toFloat(i - 1)]

\* the whole numbers below 2^Precision, all of them exact
SmallNumbers == { Finite(toFloat(k)) : k \in 0..(Pow2(Precision) - 1) }

\* descriptor axes with min and width, with start and stop (stop not below
\* start), with both pairs and with neither
AxisVectorCalls ==
  { [fn |-> "axisVector",
     ax |-> [points |-> n, min |-> a, width |-> w, start |-> Undefined, stop |-> Undefined]] :
      n \in 1..MaxAxisPoints, a \in { Finite(FloatZero), Finite(toFloat(1)) },
      w \in SmallNumbers }
  \cup { [fn |-> "axisVector",
          ax |-> [points |-> n, min |-> Undefined, width |-> w, start |-> a, stop |-> b]] :
           n \in 1..MaxAxisPoints, w \in { Undefined, Finite(toFloat(1)) },
           a \in { Finite(FloatZero), Finite(toFloat(1)) },
           b \in { s \in SmallNumbers : numOf(s.x) >= 1 } \cup { Undefined } }
  \cup { [fn |-> "axisVector",
          ax |-> [points |-> n, min |-> Finite(toFloat(1)), width |-> Finite(toFloat(2)),
                  start |-> Finite(toFloat(3)), stop |-> Finite(toFloat(4))]] :
           n \in 1..MaxAxisPoints }

CallAxisVector ==
  /\ calling("axisVector")
  /\ ret' = Some(axisVectorFloat(arg.v.ax))
  /\ UNCHANGED <<parseVars, sampleList, sampleStore, earlier, arg, children, pending>>

BuildAxisCalls ==
  { [fn |-> "buildAxis", values |-> v, points |-> n] :
      v \in { Null } \cup { Some(x) : x \in VectorsUpTo(MaxLen) }, n \in 0..(MaxLen + 1) }

CallBuildAxis ==
  /\ calling("buildAxis")
  /\ ret' = Some(buildAxis(arg.v.values, arg.v.points))
  /\ UNCHANGED <<parseVars, sampleList, sampleStore, earlier, arg, children, pending>>

\* the explicit values are as many as declared
countsMatch(values, points) == values.some /\ Len(values.v) = points

\* C26: with a positive point count buildAxis returns exactly that many
\* elements: the explicit values when they are that many, and 0..points-1
\* when their count differs or there are none.
C26_BuildAxis ==
  (called("buildAxis") /\ arg.v.points > 0) =>
    /\ ret.v.some
    /\ Len(ret.v.v) = arg.v.points
    /\ countsMatch(arg.v.values, arg.v.points) => ret.v.v = arg.v.values.v
    /\ ~countsMatch(arg.v.values, arg.v.points) =>
         ret.v.v = [i \in 1..arg.v.points |-> i - 1]

\* two explicit values against three declared points: the ramp 0, 1, 2
C26_Witness ==
  /\ called("buildAxis")
  /\ arg.v.points = 3
  /\ arg.v.values = Some(<<2, 1>>)
  /\ ret.v = Some(<<0, 1, 2>>)

\* ---------------------------------------------------------------------------
\* The X axis of a 2-D spectrum
\* ---------------------------------------------------------------------------

\* the X axis of the k-th candidate after the start normalization by unit and
\* name alone: from axes_x.csv and the matrix width in a dataset folder, from
\* the descriptor's ramp in a raw pair
startNormalizedX(k) ==
  IF isMetadataJson(input.members[log[k].entry])
  THEN buildAxis(normalizeAxisStart(
                   readAxisCsv(input.members, logPrefix(k), AXES_X_CSV,
                               xAxisMetaOf(input.members[log[k].entry]).points),
                   xAxisMetaOf(input.members[log[k].entry])),
                 Len(realMatrixOf(k)[1])).v
  ELSE normalizeAxisStart(
         Some(axisVector(axisGuess(logMeta(k), "X",
                                   getInt(logMeta(k), <<"X","P","T","S">>, 0)))),
         xAxisMetaOf(input.members[log[k].entry])).v

\* C27: the xData of a 2-D spectrum, from either strategy, is the X axis after
\* the start normalization, not shifted by its minimum, whatever the type.
C27_NoShiftIn2D ==
  \A k \in 1..Len(log) :
    (log[k].emitted /\ is2D(spectra[log[k].id])) =>
      spectra[log[k].id].xData = startNormalizedX(k)

\* ---------------------------------------------------------------------------
\* mockApi: uploadSample and deleteSample calls that overlap (mockApi.ts 660-694)
\* ---------------------------------------------------------------------------

MaxCalls == 3

\* the archives of the overlapping uploads: one that fails to load, a
\* structured one, a raw pair and a raw file without any descriptor
OverlapArchives ==
  { NotAZip, Zip(membersOf(SimpleFolder, <<>>)), Zip(membersOf(SimplePair, <<>>)),
    Zip(<<StrayDta>>) }

OverlapNames == { <<"a", ".", "z", "i", "p">> }

\* the ids deletes are called with: the first identifiers uid hands out, which
\* name a stored sample, a file, a deleted sample or nothing yet
DeleteIds == { uid(0), uid(1) }

\* the calls of op that are suspended at the await named at
suspended(op, at) ==
  { i \in 1..Len(pending) : pending[i].op = op /\ pending[i].at = at }

\* uploadSample(file) is called and suspends at await delay(300) (661)
CallUploadSample ==
  /\ Len(pending) < MaxCalls
  /\ \E archive \in OverlapArchives, name \in OverlapNames :
       pending' = Append(pending, [op |-> "uploadSample", at |-> "delay",
                                   name |-> name, archive |-> archive,
                                   sampleId |-> 0, parsed |-> NoValue])
  /\ UNCHANGED <<parseVars, sampleList, sampleStore, earlier, arg, ret, children>>

\* deleteSample(sampleId) is called and suspends at await delay(150) (691)
CallDeleteSample ==
  /\ Len(pending) < MaxCalls
  /\ \E sampleId \in DeleteIds :
       pending' = Append(pending, [op |-> "deleteSample", at |-> "delay",
                                   name |-> <<>>, archive |-> NotAZip,
                                   sampleId |-> sampleId, parsed |-> NoValue])
  /\ UNCHANGED <<parseVars, sampleList, sampleStore, earlier, arg, ret, children>>

\* an upload's delay is over: it calls parseZipArchive and suspends at that
\* await (663); the steps of two parses share nothing, so one runs at a time
UploadParses ==
  /\ pc = "idle"
  /\ \E i \in suspended("uploadSample", "delay") :
       /\ input' = pending[i].archive
       /\ pending' = [pending EXCEPT ![i].at = "parse"]
  /\ pc' = "start"
  /\ entries' = <<>> /\ idx' = 1 /\ files' = <<>> /\ spectra' = <<>> /\ log' = <<>>
  /\ outcome' = Pending
  /\ UNCHANGED <<uidCalls, sampleList, sampleStore, earlier, arg, ret, children>>

\* parseZipArchive settles: its promise holds the result until the upload
\* resumes, and the locals of the call are gone
ParseSettles ==
  /\ pc = "done"
  /\ \E i \in suspended("uploadSample", "parse") :
       pending' = [pending EXCEPT ![i].at = "parsed",
                                  ![i].parsed = Some([outcome |-> outcome, files |-> files,
                                                      spectra |-> spectra])]
  /\ input' = NotAZip /\ pc' = "idle"
  /\ entries' = <<>> /\ idx' = 1 /\ files' = <<>> /\ spectra' = <<>> /\ log' = <<>>
  /\ outcome' = Pending
  /\ UNCHANGED <<uidCalls, sampleList, sampleStore, earlier, arg, ret, children>>

\* an upload resumes with the parse result and stores its sample (664-680)
UploadStores ==
  /\ \E i \in suspended("uploadSample", "parsed") :
       /\ resolved(pending[i].parsed.v.outcome)
       /\ sampleList' = Append(sampleList, newSample(uid(uidCalls), pending[i].name,
                                                     pending[i].parsed.v.files))
       /\ sampleStore' = mapSet(sampleStore, uid(uidCalls),
                                newStored(newSample(uid(uidCalls), pending[i].name,
                                                    pending[i].parsed.v.files),
                                          pending[i].parsed.v.files,
                                          pending[i].parsed.v.spectra))
       /\ pending' = [pending EXCEPT ![i].at = "returned", ![i].sampleId = uid(uidCalls)]
       /\ arg' = Call([fn |-> "uploadSample", sampleId |-> uid(uidCalls)])
  /\ uidCalls' = uidCalls + 1
  /\ earlier' = Some([sampleList |-> sampleList, sampleStore |-> sampleStore])
  /\ UNCHANGED <<input, pc, entries, idx, files, spectra, outcome, log, ret, children>>

\* an upload resumes with the rejection of parseZipArchive and rejects (663)
UploadRejects ==
  /\ \E i \in suspended("uploadSample", "parsed") :
       /\ ~resolved(pending[i].parsed.v.outcome)
       /\ pending' = [pending EXCEPT ![i].at = "returned"]
  /\ UNCHANGED <<parseVars, sampleList, sampleStore, earlier, arg, ret, children>>

\* a delete resumes after its delay and removes the sample (692-693)
DeleteResumes ==
  /\ \E i \in suspended("deleteSample", "delay") :
       /\ sampleList' = withoutSample(sampleList, pending[i].sampleId)
       /\ sampleStore' = mapDelete(sampleStore, pending[i].sampleId)
       /\ pending' = [pending EXCEPT ![i].at = "returned"]
       /\ arg' = Call([fn |-> "deleteSample", sampleId |-> pending[i].sampleId])
  /\ earlier' = Some([sampleList |-> sampleList, sampleStore |-> sampleStore])
  /\ UNCHANGED <<parseVars, ret, children>>

InitOverlap == ParseIdle /\ RestIdle

NextOverlap ==
  \/ CallUploadSample
  \/ CallDeleteSample
  \/ UploadParses
  \/ LoadFails
  \/ SelectStructured
  \/ SelectRaw
  \/ RawNoDescriptor
  \/ FolderStep
  \/ FolderDone
  \/ PairStep
  \/ PairDone
  \/ ParseSettles
  \/ UploadStores
  \/ UploadRejects
  \/ DeleteResumes

SpecOverlap == InitOverlap /\ [][NextOverlap]_vars

\* the ids of the samples in the list
listedIds(list) == { list[i].id : i \in 1..Len(list) }

\* the store as the last upload or delete to resume found it
storeBefore == earlier.v.sampleStore

\* C28: however uploadSample and deleteSample calls overlap, sampleList and
\* sampleStore name the same samples, no id is listed twice, each stored
\* sample's fileCount is the length of its files, and a delete leaves the
\* entries of the other samples as they were.
C28_StoreConsistent ==
  /\ listedIds(sampleList) = DOMAIN sampleStore
  /\ \A i, j \in 1..Len(sampleList) : sampleList[i].id = sampleList[j].id => i = j
  /\ \A id \in DOMAIN sampleStore :
       /\ sampleStore[id].sample.id = id
       /\ sampleStore[id].sample.fileCount = Len(sampleStore[id].files)
       /\ \A i \in 1..Len(sampleList) :
            sampleList[i].id = id => sampleList[i] = sampleStore[id].sample
  /\ (arg.some /\ arg.v.fn = "deleteSample") =>
       /\ DOMAIN sampleStore = (DOMAIN storeBefore) \ {arg.v.sampleId}
       /\ \A id \in DOMAIN sampleStore : sampleStore[id] = storeBefore[id]
       /\ sampleList = SelectSeq(earlier.v.sampleList, LAMBDA s : s.id # arg.v.sampleId)

\* a delete of a stored sample was suspended while a later upload was called,
\* parsed and stored; the delete then resumed and the later sample stayed
C28_Witness ==
  /\ arg.some /\ arg.v.fn = "deleteSample"
  /\ arg.v.sampleId \in DOMAIN storeBefore
  /\ \E i, j \in 1..Len(pending) :
       /\ i < j
       /\ pending[i].op = "deleteSample" /\ pending[i].sampleId = arg.v.sampleId
       /\ pending[j].op = "uploadSample" /\ pending[j].sampleId \in DOMAIN sampleStore

\* ---------------------------------------------------------------------------
\* mockApi: the selection and the processed set of a sample (mockApi.ts 703-731)
\* ---------------------------------------------------------------------------

\* fileIds.includes(id)
hasId(fileIds, id) == \E i \in 1..Len(fileIds) : fileIds[i] = id

\* new Set(fileIds): each id once, in the order of its first occurrence
RECURSIVE idSet(_)
idSet(fileIds) ==
  IF fileIds = <<>> THEN <<>>
  ELSE IF hasId(idSet(SubSeq(fileIds, 1, Len(fileIds) - 1)), fileIds[Len(fileIds)])
       THEN idSet(SubSeq(fileIds, 1, Len(fileIds) - 1))
       ELSE Append(idSet(SubSeq(fileIds, 1, Len(fileIds) - 1)), fileIds[Len(fileIds)])

\* stored.files.map(f => (f.id === fileId ? { ...f, selected } : f)) (703-707)
updateFileSelection(store, sampleId, fileId, selected) ==
  IF sampleId \notin DOMAIN store THEN store
  ELSE [store EXCEPT ![sampleId].files =
          [i \in 1..Len(store[sampleId].files) |->
             IF store[sampleId].files[i].id = fileId
             THEN [store[sampleId].files[i] EXCEPT !.selected = selected]
             ELSE store[sampleId].files[i]]]

\* the processed set is replaced and the flags of the files are left alone
processedOnly(store, sampleId, fileIds) ==
  IF sampleId \notin DOMAIN store THEN store
  ELSE [store EXCEPT ![sampleId].processed = idSet(fileIds)]

\* processFiles after its delay (711-715)
processFiles(store, sampleId, fileIds) ==
  IF sampleId \notin DOMAIN store THEN store
  ELSE [store EXCEPT ![sampleId].processed = idSet(fileIds),
                     ![sampleId].files =
                        [i \in 1..Len(store[sampleId].files) |->
                           [store[sampleId].files[i] EXCEPT
                              !.selected = hasId(fileIds, store[sampleId].files[i].id)]]]

\* the ids the calls name: those of the upload's files and of its sample
CalledIds == { uid(0), uid(1), uid(2) }

\* the fileIds arguments: up to two ids, also the same id twice
FileIdLists == { <<>> } \cup { <<a>> : a \in CalledIds }
                 \cup { <<a, b>> : a \in CalledIds, b \in CalledIds }

\* the first upload into the empty store
UploadFirst ==
  /\ sampleStore = <<>>
  /\ StartUpload

\* processFiles(sampleId, fileIds) between two other calls (710-716)
ProcessFiles ==
  /\ pc = "idle"
  /\ \E sampleId \in CalledIds, fileIds \in FileIdLists :
       /\ sampleStore' = processFiles(sampleStore, sampleId, fileIds)
       /\ arg' = Call([fn |-> "processFiles", sampleId |-> sampleId, fileIds |-> fileIds])
  /\ earlier' = Some([sampleList |-> sampleList, sampleStore |-> sampleStore])
  /\ ret' = Some(ReturnedResult)
  /\ UNCHANGED <<parseVars, sampleList, children, pending>>

\* updateFileSelection(sampleId, fileId, selected) between two other calls (703-707)
UpdateFileSelection ==
  /\ pc = "idle"
  /\ \E sampleId \in CalledIds, fileId \in CalledIds, selected \in BOOLEAN :
       /\ sampleStore' = updateFileSelection(sampleStore, sampleId, fileId, selected)
       /\ arg' = Call([fn |-> "updateFileSelection", sampleId |-> sampleId,
                       fileId |-> fileId, selected |-> selected])
  /\ earlier' = Some([sampleList |-> sampleList, sampleStore |-> sampleStore])
  /\ ret' = Some(ReturnedResult)
  /\ UNCHANGED <<parseVars, sampleList, children, pending>>

NextProcess ==
  \/ UploadFirst
  \/ LoadFails
  \/ SelectStructured
  \/ SelectRaw
  \/ RawNoDescriptor
  \/ FolderStep
  \/ FolderDone
  \/ PairStep
  \/ PairDone
  \/ StoreSample
  \/ FailUpload
  \/ ProcessFiles
  \/ UpdateFileSelection

SpecProcess == InitUpload /\ [][NextProcess]_vars

\* the ids of the spectra getProcessedSpectra returns for the sample
processedIds(store, sampleId) ==
  { getProcessedSpectra(store, sampleId)[i].id :
      i \in 1..Len(getProcessedSpectra(store, sampleId)) }

\* the files of the sample without their selected flags
unflagged(store, sampleId) ==
  [i \in 1..Len(store[sampleId].files) |->
     [store[sampleId].files[i] EXCEPT !.selected = FALSE]]

\* all but the files of the sample
withoutFiles(store, sampleId) ==
  [id \in DOMAIN store |-> IF id = sampleId THEN [store[id] EXCEPT !.files = <<>>]
                           ELSE store[id]]

\* the call of fn that has just returned was for a sample the store held
servedStored(fn) == called(fn) /\ arg.v.sampleId \in DOMAIN storeBefore

\* the call of fn that has just returned was for a sample the store did not hold
servedUnknown(fn) == called(fn) /\ arg.v.sampleId \notin DOMAIN storeBefore

\* C29: after uploadSample every parsed spectrum is among the processed ones;
\* after processFiles on a stored sample a file is selected exactly when its id
\* was among the ids, exactly when its spectrum is among the processed ones,
\* only spectra of named files are returned, and the files keep their order and
\* ids; on an unknown sample nothing changes. updateFileSelection sets only the
\* flag of the named file and changes no answer of getProcessedSpectra.
C29_SelectionAndProcessed ==
  /\ (called("uploadSample") /\ resolved(outcome)) =>
       /\ Len(getProcessedSpectra(sampleStore, ret.v.id)) = Cardinality(DOMAIN spectra)
       /\ \A id \in DOMAIN spectra :
            \E i \in 1..Len(getProcessedSpectra(sampleStore, ret.v.id)) :
              getProcessedSpectra(sampleStore, ret.v.id)[i] = spectra[id]
  /\ servedStored("processFiles") =>
       /\ \A i \in 1..Len(sampleStore[arg.v.sampleId].files) :
            /\ sampleStore[arg.v.sampleId].files[i].selected
                 = hasId(arg.v.fileIds, sampleStore[arg.v.sampleId].files[i].id)
            /\ sampleStore[arg.v.sampleId].files[i].selected
                 = (sampleStore[arg.v.sampleId].files[i].id
                      \in processedIds(sampleStore, arg.v.sampleId))
       /\ \A id \in processedIds(sampleStore, arg.v.sampleId) :
            /\ hasId(arg.v.fileIds, id)
            /\ \E i \in 1..Len(sampleStore[arg.v.sampleId].files) :
                 sampleStore[arg.v.sampleId].files[i].id = id
       /\ Len(getProcessedSpectra(sampleStore, arg.v.sampleId))
            = Cardinality(processedIds(sampleStore, arg.v.sampleId))
       /\ unflagged(sampleStore, arg.v.sampleId) = unflagged(storeBefore, arg.v.sampleId)
       /\ DOMAIN sampleStore = DOMAIN storeBefore
       /\ \A id \in DOMAIN sampleStore :
            /\ sampleStore[id].sample = storeBefore[id].sample
            /\ sampleStore[id].spectra = storeBefore[id].spectra
            /\ id # arg.v.sampleId => sampleStore[id] = storeBefore[id]
       /\ sampleList = earlier.v.sampleList
  /\ servedUnknown("processFiles") =>
       /\ sampleStore = storeBefore
       /\ sampleList = earlier.v.sampleList
  /\ called("updateFileSelection") =>
       /\ sampleList = earlier.v.sampleList
       /\ withoutFiles(sampleStore, arg.v.sampleId) = withoutFiles(storeBefore, arg.v.sampleId)
       /\ \A sampleId \in CalledIds :
            getProcessedSpectra(sampleStore, sampleId)
              = getProcessedSpectra(storeBefore, sampleId)
  /\ servedStored("updateFileSelection") =>
       /\ Len(sampleStore[arg.v.sampleId].files) = Len(storeBefore[arg.v.sampleId].files)
       /\ \A i \in 1..Len(sampleStore[arg.v.sampleId].files) :
            sampleStore[arg.v.sampleId].files[i]
              = IF storeBefore[arg.v.sampleId].files[i].id = arg.v.fileId
                THEN [storeBefore[arg.v.sampleId].files[i] EXCEPT !.selected = arg.v.selected]
                ELSE storeBefore[arg.v.sampleId].files[i]

\* processFiles on a sample of two files returned, called with the id of one
\* file of the sample and an id that names none of its files
C29_Witness ==
  /\ servedStored("processFiles")
  /\ Len(sampleStore[arg.v.sampleId].files) = 2
  /\ Cardinality(processedIds(sampleStore, arg.v.sampleId)) = 1
  /\ Len(sampleStore[arg.v.sampleId].processed) = 2

\* ---------------------------------------------------------------------------
\* parseParamsFromName: which tokens set which field
\* ---------------------------------------------------------------------------

\* text is \d+(?:[p.]\d+)? from its first to its last character
isNumberText(text) ==
  /\ Len(text) > 0
  /\ isDigit(text[1])
  /\ numberEndLong(text, 1) = Len(text)

\* what lies between the prefix and the suffix of a token
between(tok, prefix, suffix) ==
  SubSeq(toLowerCase(tok), Len(prefix) + 1, Len(tok) - Len(suffix))

\* the whole token is a literal of the form prefix<num>suffix, in either case
ownForm(tok, prefix, suffix) ==
  /\ Len(tok) > Len(prefix) + Len(suffix)
  /\ hasAt(toLowerCase(tok), 1, prefix)
  /\ endsWith(toLowerCase(tok), suffix)
  /\ isNumberText(between(tok, prefix, suffix))

\* the number of the last token of the form prefix<num>suffix, if there is one
RECURSIVE lastOwn(_, _, _)
lastOwn(tokens, prefix, suffix) ==
  IF tokens = <<>> THEN Null
  ELSE IF ownForm(tokens[Len(tokens)], prefix, suffix)
       THEN Some(numberOfLiteral(replaceP(between(tokens[Len(tokens)], prefix, suffix))))
       ELSE lastOwn(SubSeq(tokens, 1, Len(tokens) - 1), prefix, suffix)

\* C30: each numeric field of parseParamsFromName is the number of the last
\* token that is a literal of the field's own form (<num>K, <num>G,
\* HPA<num>dB, P<num>, SW<num>) and is undefined when the name has no such
\* token: a token <a>p<b>K sets temperatureK and leaves pulseWidth undefined.
C30_FieldsOfOwnTokens ==
  called("parseParamsFromName") =>
    /\ ret.v.temperatureK = lastOwn(ret.v.tokens, <<>>, <<"k">>)
    /\ ret.v.fieldG = lastOwn(ret.v.tokens, <<>>, <<"g">>)
    /\ ret.v.amplifierDb = lastOwn(ret.v.tokens, <<"h","p","a">>, <<"d","b">>)
    /\ ret.v.pulseWidth = lastOwn(ret.v.tokens, <<"p">>, <<>>)
    /\ ret.v.spectralWidth = lastOwn(ret.v.tokens, <<"s","w">>, <<>>)

\* ---------------------------------------------------------------------------
\* The helper functions called on their own: one call, then its return
\* ---------------------------------------------------------------------------

InitHelpers ==
  /\ ParseIdle
  /\ sampleList = <<>> /\ sampleStore = <<>> /\ earlier = NoValue /\ children = <<>>
  /\ pending = <<>>
  /\ ret = NoValue
  /\ \/ \E c \in InferCalls : arg = Call(c)
     \/ \E c \in NormalizeAxisCalls : arg = Call(c)
     \/ \E c \in NormalizeXCalls : arg = Call(c)
     \/ \E c \in ParseParamsCalls : arg = Call(c)
     \/ \E c \in ParseDscCalls : arg = Call(c)
     \/ \E c \in WhitespaceLineCalls : arg = Call(c)
     \/ \E c \in AxisVectorCalls : arg = Call(c)
     \/ \E c \in BuildAxisCalls : arg = Call(c)

NextHelpers ==
  \/ CallInferSpectrumType
  \/ CallNormalizeAxisStart
  \/ CallNormalizeXForTimeType
  \/ CallParseParamsFromName
  \/ CallParseDscText
  \/ CallParseDscLine
  \/ CallAxisVector
  \/ CallBuildAxis

SpecHelpers == InitHelpers /\ [][NextHelpers]_vars

====
